---- MODULE Spec2Model ----
(***************************************************************************)
(* A model of veris: the MVCC layer of storage/mvcc.rs over an ordered     *)
(* byte-keyed storage engine, the sessions of exec/session.rs that hold    *)
(* MVCC transactions, and the Bitcask log of storage/bitcask.rs.           *)
(*                                                                         *)
(* Byte strings are sequences of integers 0..255.  An Option<T> is a       *)
(* sequence of length 0 (None) or 1 (Some).                                *)
(***************************************************************************)
EXTENDS Integers, Sequences, FiniteSets, TLC

VARIABLES
    store,      \* the storage engine behind the MVCC mutex: encoded key -> value
    txns,       \* the MvccTransaction handles created so far, in begin order
    ghost,      \* per handle: its writes, what it read before them, who was active at its begin
    ret,        \* the result of the last MVCC call
    nwrites,    \* the number of set and delete calls made so far
    cur,        \* per session: current_transaction (0 = None, else a handle)
    sret,       \* the result of the last session statement
    s3,         \* how far the run has followed the script of scenario S3
    scan,       \* the MvccScanIterator in use (state, buffer, remainder, output)
    log,        \* Bitcask: the bytes of the log file
    key_dir,    \* Bitcask: key -> Location
    hist,       \* Bitcask: the set/delete calls whose records are in the log
    bret,       \* Bitcask: the result of the last call
    lret,       \* LocalTransaction: the last call and its result
    serving,    \* Server: the connection sql_accept is running sql_session for
    conn,       \* Server: connection -> "closed", "queued" (not yet accepted), "open"
    inbox,      \* Server: connection -> the requests sent and not yet read
    resp,       \* Server: the last response written
    mid,        \* Server: the session around the Session::exec that failed last
    input,      \* the arguments of the last call of a function that has no state
    output      \* what that call returned

mvccVars == <<store, txns, ghost, ret, nwrites>>
sessVars == <<cur, sret, s3>>
bitcaskVars == <<log, key_dir, hist, bret>>
localVars == <<lret>>
serverVars == <<serving, conn, inbox, resp, mid>>
pureVars == <<input, output>>
restVars == <<localVars, serverVars, pureVars>>
vars == <<store, txns, ghost, ret, nwrites, cur, sret, s3, scan, log, key_dir, hist, bret,
          lret, serving, conn, inbox, resp, mid, input, output>>

----------------------------------------------------------------------------
(* Bounds *)

MaxVersion == 2        \* versions handed out by begin() in Spec
MaxWrites == 2         \* set and delete calls in Spec
MaxSessVersion == 4    \* versions handed out in SpecSession
MaxScanVersion == 3    \* versions handed out in SpecScan
MaxScanWrites == 2     \* set and delete calls in SpecScan
MaxOps == 3            \* records appended to the Bitcask log
MaxLocalVersion == 3   \* transactions of SpecLocal, the one that made the tables included
MaxLocalOps == 3       \* insert, delete and create_table calls in SpecLocal
MaxDropVersion == 3    \* transactions of SpecDrop that call drop_table, and the one that made the tables
MaxDropRows == 4       \* rows inserted into table c in SpecDrop
MaxDropLoads == 2      \* INSERT statements that fill table c in SpecDrop
MaxExecVersion == 4    \* transactions of SpecExec, the two that made table t and its row included
MaxServerVersion == 5  \* transactions of SpecServer, the two that made table t and its row included
MaxRequests == 2       \* requests the clients send in SpecServer
MaxKeyBytes == 2       \* bytes of the strings and byte strings in the keys of SpecKeycode
MaxPrefixLen == 3      \* bytes of the prefixes given to key_prefix_range in SpecKeycode
IntegerBits == 4       \* bits of an i64 in the values of the executor's specifications
MaxAggregateRows == 3  \* rows given to the aggregator in SpecAggregate
MaxJoinRows == 2       \* rows of each source of the joins in SpecJoin
MaxFilterRows == 3     \* items of the source of the filters in SpecFilter
MaxBeginVersion == 4   \* versions handed out by begin() in SpecBegin
MaxInsertOps == 2      \* Insert nodes executed in SpecInsert
MaxConflictVersion == 3  \* versions handed out in SpecConflict
MaxConflictWrites == 3   \* set and delete calls in SpecConflict
MaxLines == 3          \* lines the clients write in SpecLines
MaxSelfOps == 3        \* insert and delete calls in SpecSelf
MaxScopeColumns == 4   \* columns of the scope in SpecScope

\* user keys and values of the MVCC specifications
Keys == {<<1>>, <<1, 0>>}
Vals == {<<7>>, <<8>>}

None == <<>>
Some(x) == <<x>>

----------------------------------------------------------------------------
(* Byte strings *)

\* Vec<u8>'s Ord: byte-lexicographic, a proper prefix sorts first
RECURSIVE BytesLessFrom(_, _, _)
BytesLessFrom(a, b, i) ==
    IF i > Len(b) THEN FALSE
    ELSE IF i > Len(a) THEN TRUE
    ELSE IF a[i] < b[i] THEN TRUE
    ELSE IF a[i] > b[i] THEN FALSE
    ELSE BytesLessFrom(a, b, i + 1)

BytesLess(a, b) == BytesLessFrom(a, b, 1)

BytesLeq(a, b) == a = b \/ BytesLess(a, b)

\* the least element of a non-empty set of byte strings
MinBytes(S) == CHOOSE x \in S : \A y \in S : BytesLeq(x, y)
MaxBytes(S) == CHOOSE x \in S : \A y \in S : BytesLeq(y, x)

\* the elements of a set of byte strings in ascending order (the order in
\* which a BTreeMap iterates its keys), by insertion
RECURSIVE SortBytes(_)
SortBytes(S) ==
    IF S = {} THEN <<>>
    ELSE LET x == CHOOSE y \in S : TRUE
             rest == SortBytes(S \ {x})
             n == Cardinality({i \in DOMAIN rest : BytesLess(rest[i], x)})
         IN  SubSeq(rest, 1, n) \o <<x>> \o SubSeq(rest, n + 1, Len(rest))

Reverse(s) == [i \in 1..Len(s) |-> s[Len(s) + 1 - i]]

\* u64::to_be_bytes, for values below 2^31
ToBeBytes8(n) ==
    [i \in 1..8 |->
        IF i <= 4 THEN 0
        ELSE IF i = 5 THEN (n \div 16777216) % 256
        ELSE IF i = 6 THEN (n \div 65536) % 256
        ELSE IF i = 7 THEN (n \div 256) % 256
        ELSE n % 256]

\* u64::from_be_bytes, for values below 2^31
FromBeBytes8(b) == b[5] * 16777216 + b[6] * 65536 + b[7] * 256 + b[8]

\* Version::MAX.to_be_bytes()
VersionMaxBytes == [i \in 1..8 |-> 255]

----------------------------------------------------------------------------
(* Key encoding: encoding/key/ser.rs, encoding/key/de.rs, encoding/key.rs *)

RECURSIVE EscapeBytes(_)
EscapeBytes(v) ==
    IF v = <<>> THEN <<>>
    ELSE (IF Head(v) = 0 THEN <<0, 255>> ELSE <<Head(v)>>) \o EscapeBytes(Tail(v))

serialize_bytes(v) == EscapeBytes(v) \o <<0, 0>>

\* decode_next_byte_slice: [ok, out, rest]
RECURSIVE decode_next_byte_slice(_, _)
decode_next_byte_slice(bytes, temp) ==
    IF bytes = <<>> THEN [ok |-> FALSE, out |-> temp, rest |-> <<>>]
    ELSE IF Head(bytes) = 0 THEN
        IF Len(bytes) < 2 THEN [ok |-> FALSE, out |-> temp, rest |-> <<>>]
        ELSE IF bytes[2] = 0 THEN
            [ok |-> TRUE, out |-> temp, rest |-> SubSeq(bytes, 3, Len(bytes))]
        ELSE IF bytes[2] = 255 THEN
            decode_next_byte_slice(SubSeq(bytes, 3, Len(bytes)), Append(temp, 0))
        ELSE [ok |-> FALSE, out |-> temp, rest |-> <<>>]
    ELSE decode_next_byte_slice(Tail(bytes), Append(temp, Head(bytes)))

\* mvcc::Key, encoded
KeyNextVersion == <<0>>
KeyActiveTransaction(v) == <<1>> \o ToBeBytes8(v)
KeyActiveTransactionSnapshot(v) == <<2>> \o ToBeBytes8(v)
KeyTransactionWrite(v, k) == <<3>> \o ToBeBytes8(v) \o serialize_bytes(k)
KeyVersion(k, v) == <<4>> \o serialize_bytes(k) \o ToBeBytes8(v)
KeyVersionMax(k) == <<4>> \o serialize_bytes(k) \o VersionMaxBytes

\* mvcc::KeyPrefix, encoded
KeyPrefixActiveTransaction == <<1>>
KeyPrefixTransactionWrite(v) == <<3>> \o ToBeBytes8(v)
KeyPrefixVersion(p) == <<4>> \o serialize_bytes(p)
KeyPrefixUnversioned == <<5>>

\* Key::decode: [ok, tag, version, key]
KeyDecode(bytes) ==
    LET bad == [ok |-> FALSE, tag |-> 255, version |-> 0, key |-> <<>>]
        body == Tail(bytes)
    IN  IF bytes = <<>> THEN bad
        ELSE IF bytes[1] = 0 THEN
            [ok |-> TRUE, tag |-> 0, version |-> 0, key |-> <<>>]
        ELSE IF bytes[1] \in {1, 2} THEN
            IF Len(body) < 8 THEN bad
            ELSE [ok |-> TRUE, tag |-> bytes[1],
                  version |-> FromBeBytes8(body), key |-> <<>>]
        ELSE IF bytes[1] = 3 THEN
            IF Len(body) < 8 THEN bad
            ELSE LET d == decode_next_byte_slice(SubSeq(body, 9, Len(body)), <<>>)
                 IN  IF ~d.ok THEN bad
                     ELSE [ok |-> TRUE, tag |-> 3,
                           version |-> FromBeBytes8(body), key |-> d.out]
        ELSE IF bytes[1] = 4 THEN
            LET d == decode_next_byte_slice(body, <<>>)
            IN  IF ~d.ok \/ Len(d.rest) < 8 THEN bad
                ELSE [ok |-> TRUE, tag |-> 4,
                      version |-> FromBeBytes8(d.rest), key |-> d.out]
        ELSE IF bytes[1] = 5 THEN
            LET d == decode_next_byte_slice(body, <<>>)
            IN  IF ~d.ok THEN bad
                ELSE [ok |-> TRUE, tag |-> 5, version |-> 0, key |-> d.out]
        ELSE bad

\* std::ops::Bound<ByteVec>
Included(k) == [kind |-> "Included", key |-> k]
Excluded(k) == [kind |-> "Excluded", key |-> k]
Unbounded == [kind |-> "Unbounded", key |-> <<>>]

\* RangeBounds::contains
RangeContains(range, x) ==
    /\ CASE range[1].kind = "Included" -> BytesLeq(range[1].key, x)
         [] range[1].kind = "Excluded" -> BytesLess(range[1].key, x)
         [] OTHER -> TRUE
    /\ CASE range[2].kind = "Included" -> BytesLeq(x, range[2].key)
         [] range[2].kind = "Excluded" -> BytesLess(x, range[2].key)
         [] OTHER -> TRUE

\* the index of the last byte that is not 0xff, 0 when there is none
RPositionNotFF(prefix) ==
    IF \E i \in 1..Len(prefix) : prefix[i] # 255
    THEN CHOOSE i \in 1..Len(prefix) :
            prefix[i] # 255 /\ \A j \in (i + 1)..Len(prefix) : prefix[j] = 255
    ELSE 0

\* a key_prefix_range that looks at the last byte only
key_prefix_range_LastByte(prefix) ==
    <<Included(prefix),
      IF prefix = <<>> \/ prefix[Len(prefix)] = 255 THEN Unbounded
      ELSE Excluded(SubSeq(prefix, 1, Len(prefix) - 1) \o <<prefix[Len(prefix)] + 1>>)>>

key_prefix_range(prefix) ==
    LET i == RPositionNotFF(prefix)
    IN  <<Included(prefix),
          IF i = 0 THEN Unbounded
          ELSE Excluded(SubSeq(prefix, 1, i - 1) \o <<prefix[i] + 1>>)>>

----------------------------------------------------------------------------
(* Value encoding: encoding/value.rs (bincode, fixed-width big-endian) *)

\* bincode_serialize(&Option<&[u8]>)
bincode_serialize(value) ==
    IF value = None THEN <<0>>
    ELSE <<1>> \o ToBeBytes8(Len(value[1])) \o value[1]

\* bincode_deserialize::<Option<ByteVec>>
bincode_deserialize(bytes) ==
    IF bytes[1] = 0 THEN None
    ELSE Some(SubSeq(bytes, 10, 9 + FromBeBytes8(SubSeq(bytes, 2, 9))))

\* bincode of a BTreeSet<Version>: the length, then the elements in ascending order
RECURSIVE bincode_serialize_versions_from(_)
bincode_serialize_versions_from(S) ==
    IF S = {} THEN <<>>
    ELSE LET m == CHOOSE x \in S : \A y \in S : x <= y
         IN  ToBeBytes8(m) \o bincode_serialize_versions_from(S \ {m})

bincode_serialize_versions(S) ==
    ToBeBytes8(Cardinality(S)) \o bincode_serialize_versions_from(S)

----------------------------------------------------------------------------
(* The storage engine as MVCC uses it: storage/engine.rs (StorageEngine) *)

EngineSet(s, k, v) == [x \in DOMAIN s \cup {k} |-> IF x = k THEN v ELSE s[x]]
EngineDelete(s, k) == [x \in DOMAIN s \ {k} |-> s[x]]
EngineDeleteAll(s, ks) == [x \in DOMAIN s \ ks |-> s[x]]
EngineGet(s, k) == IF k \in DOMAIN s THEN Some(s[k]) ELSE None

\* the keys a scan of the range visits (the iterator walks them in order)
EngineScanKeys(s, range) == {k \in DOMAIN s : RangeContains(range, k)}
EngineScan(s, range) == SortBytes(EngineScanKeys(s, range))
EngineScanPrefix(s, prefix) == EngineScanKeys(s, key_prefix_range(prefix))

----------------------------------------------------------------------------
(* MVCC: storage/mvcc.rs *)

SetMin(S) == CHOOSE x \in S : \A y \in S : x <= y

\* a scan that returns every version begin has handed out so far
scan_active_txns_AllBegun(s) ==
    IF EngineGet(s, KeyNextVersion) = None THEN {}
    ELSE 1..(FromBeBytes8(EngineGet(s, KeyNextVersion)[1]) - 2)

\* Mvcc::scan_active_txns
scan_active_txns(s) ==
    {KeyDecode(k).version : k \in EngineScanPrefix(s, KeyPrefixActiveTransaction)}

\* a begin that takes no snapshot of the transactions active at its start
MvccBegin_EmptySnapshot(s) ==
    LET nv == EngineGet(s, KeyNextVersion)
        version == IF nv = None THEN 1 ELSE FromBeBytes8(nv[1])
        s1 == EngineSet(s, KeyNextVersion, ToBeBytes8(version + 1))
        s3x == EngineSet(s1, KeyActiveTransaction(version), <<>>)
    IN  [store |-> s3x,
         state |-> [version |-> version, read_only |-> FALSE,
                    active_txns |-> {}]]

\* Mvcc::begin: the store afterwards and the MvccTransactionState returned
MvccBegin(s) ==
    LET nv == EngineGet(s, KeyNextVersion)
        version == IF nv = None THEN 1 ELSE FromBeBytes8(nv[1])
        s1 == EngineSet(s, KeyNextVersion, ToBeBytes8(version + 1))
        active_txns == scan_active_txns(s1)
        s2 == IF active_txns # {}
              THEN EngineSet(s1, KeyActiveTransactionSnapshot(version),
                             bincode_serialize_versions(active_txns))
              ELSE s1
        s3x == EngineSet(s2, KeyActiveTransaction(version), <<>>)
    IN  [store |-> s3x,
         state |-> [version |-> version, read_only |-> FALSE,
                    active_txns |-> active_txns]]

\* a visibility test that forgets the snapshot of active transactions
is_version_visible_NoSnapshot(state, version) ==
    IF state.read_only THEN version < state.version
    ELSE version <= state.version

\* MvccTransactionState::is_version_visible
is_version_visible(state, version) ==
    IF version \in state.active_txns THEN FALSE
    ELSE IF state.read_only THEN version < state.version
    ELSE version <= state.version

\* a write_version that scans from its own version + 1 whatever the snapshot
write_version_ScanFromOwn(s, state, key, value) ==
    IF state.read_only THEN [store |-> s, res |-> "TransactionReadOnly"]
    ELSE
    LET from == KeyVersion(key, state.version + 1)
        to == KeyVersionMax(key)
        found == EngineScanKeys(s, <<Included(from), Included(to)>>)
        last == KeyDecode(MaxBytes(found))
    IN  IF found # {} /\ ~(last.ok /\ last.tag = 4)
        THEN [store |-> s, res |-> "InvalidEngineState"]
        ELSE IF found # {} /\ ~is_version_visible(state, last.version)
        THEN [store |-> s, res |-> "OutOfOrder"]
        ELSE [store |-> EngineSet(
                            EngineSet(s, KeyTransactionWrite(state.version, key), <<>>),
                            KeyVersion(key, state.version), bincode_serialize(value)),
              res |-> "Ok"]

\* a write_version that writes the Version record without the TransactionWrite
\* marker
write_version_NoMarker(s, state, key, value) ==
    IF state.read_only THEN [store |-> s, res |-> "TransactionReadOnly"]
    ELSE
    LET from == KeyVersion(key, IF state.active_txns # {}
                                THEN SetMin(state.active_txns)
                                ELSE state.version + 1)
        to == KeyVersionMax(key)
        found == EngineScanKeys(s, <<Included(from), Included(to)>>)
        last == KeyDecode(MaxBytes(found))
    IN  IF found # {} /\ ~(last.ok /\ last.tag = 4)
        THEN [store |-> s, res |-> "InvalidEngineState"]
        ELSE IF found # {} /\ ~is_version_visible(state, last.version)
        THEN [store |-> s, res |-> "OutOfOrder"]
        ELSE [store |-> EngineSet(s, KeyVersion(key, state.version),
                                  bincode_serialize(value)),
              res |-> "Ok"]

\* MvccTransaction::write_version: [store, res]
write_version(s, state, key, value) ==
    IF state.read_only THEN [store |-> s, res |-> "TransactionReadOnly"]
    ELSE
    LET from == KeyVersion(key, IF state.active_txns # {}
                                THEN SetMin(state.active_txns)
                                ELSE state.version + 1)
        to == KeyVersionMax(key)
        found == EngineScanKeys(s, <<Included(from), Included(to)>>)
        last == KeyDecode(MaxBytes(found))
    IN  IF found # {} /\ ~(last.ok /\ last.tag = 4)
        THEN [store |-> s, res |-> "InvalidEngineState"]
        ELSE IF found # {} /\ ~is_version_visible(state, last.version)
        THEN [store |-> s, res |-> "OutOfOrder"]
        ELSE [store |-> EngineSet(
                            EngineSet(s, KeyTransactionWrite(state.version, key), <<>>),
                            KeyVersion(key, state.version), bincode_serialize(value)),
              res |-> "Ok"]

\* a commit that leaves the ActiveTransaction marker behind
MvccCommit_KeepActive(s, state) ==
    IF state.read_only THEN s
    ELSE EngineDeleteAll(s, EngineScanPrefix(s, KeyPrefixTransactionWrite(state.version)))

\* MvccTransaction::commit: the store afterwards (flush leaves the map alone)
MvccCommit(s, state) ==
    IF state.read_only THEN s
    ELSE LET to_remove == EngineScanPrefix(s, KeyPrefixTransactionWrite(state.version))
         IN  EngineDelete(EngineDeleteAll(s, to_remove),
                          KeyActiveTransaction(state.version))

\* a rollback that removes the markers but not the Version records
MvccRollback_KeepVersions(s, state) ==
    IF state.read_only THEN s
    ELSE EngineDelete(
             EngineDeleteAll(s, EngineScanPrefix(s, KeyPrefixTransactionWrite(state.version))),
             KeyActiveTransaction(state.version))

\* MvccTransaction::rollback: the store afterwards
MvccRollback(s, state) ==
    IF state.read_only THEN s
    ELSE LET markers == EngineScanPrefix(s, KeyPrefixTransactionWrite(state.version))
             rollback == markers \cup
                 {KeyVersion(KeyDecode(m).key, state.version) : m \in markers}
         IN  EngineDelete(EngineDeleteAll(s, rollback),
                          KeyActiveTransaction(state.version))

\* the first visible record of a descending walk, None when there is none
RECURSIVE FirstVisible(_, _, _)
FirstVisible(s, state, keys) ==
    IF keys = <<>> THEN None
    ELSE IF is_version_visible(state, KeyDecode(Head(keys)).version)
         THEN bincode_deserialize(s[Head(keys)])
         ELSE FirstVisible(s, state, Tail(keys))

\* MvccTransaction::get
MvccGet(s, state, key) ==
    LET from == KeyVersion(key, 0)
        to == KeyVersion(key, state.version)
    IN  FirstVisible(s, state,
            Reverse(EngineScan(s, <<Included(from), Included(to)>>)))

----------------------------------------------------------------------------
(* MVCC scans: MvccTransaction::scan, scan_prefix, MvccScanIterator *)

BUFFER_SIZE == 32

\* MvccTransaction::scan: the engine range of a range of user keys
MvccScanRange(range) ==
    <<CASE range[1].kind = "Excluded" -> Excluded(KeyVersionMax(range[1].key))
        [] range[1].kind = "Included" -> Included(KeyVersion(range[1].key, 0))
        [] OTHER -> Included(KeyVersion(<<>>, 0)),
      CASE range[2].kind = "Excluded" -> Excluded(KeyVersion(range[2].key, 0))
        [] range[2].kind = "Included" -> Included(KeyVersionMax(range[2].key))
        [] OTHER -> Excluded(KeyPrefixUnversioned)>>

\* MvccTransaction::scan_prefix: the engine range of a prefix of user keys
MvccScanPrefixRange(prefix) ==
    LET p == KeyPrefixVersion(prefix)
    IN  key_prefix_range(SubSeq(p, 1, Len(p) - 2))

\* MvccScanIterator::new
MvccScanIteratorNew(state, range) ==
    [state |-> state, buffer |-> <<>>, remainder |-> Some(range)]

\* VersionIterator::try_next: one record decoded to (key, version, value)
VersionItem(d, value) == [key |-> d.key, version |-> d.version, value |-> value]
\* the records at the engine keys vis, decoded
VersionItems(s, vis) == [i \in 1..Len(vis) |-> VersionItem(KeyDecode(vis[i]), s[vis[i]])]
\* VersionIterator: the visible records of the range, in engine order, decoded
VersionIterator(s, state, range) ==
    VersionItems(s, SelectSeq(EngineScan(s, range),
                     LAMBDA k : is_version_visible(state, KeyDecode(k).version)))

\* the while loop of fill_buffer from item i on: [buffer, remainder]
RECURSIVE FillLoop(_, _, _, _)
FillLoop(vis, i, buffer, range_end) ==
    IF i > Len(vis) THEN [buffer |-> buffer, remainder |-> None]
    ELSE IF i < Len(vis) /\ vis[i + 1].key = vis[i].key
         THEN FillLoop(vis, i + 1, buffer, range_end)
    ELSE IF bincode_deserialize(vis[i].value) = None
         THEN FillLoop(vis, i + 1, buffer, range_end)
    ELSE LET pushed == Append(buffer, <<vis[i].key, bincode_deserialize(vis[i].value)[1]>>)
         IN  IF Len(pushed) = BUFFER_SIZE
             THEN [buffer |-> pushed,
                   remainder |->
                      IF i < Len(vis)
                      THEN Some(<<Included(KeyVersion(vis[i + 1].key, vis[i + 1].version)),
                                  range_end>>)
                      ELSE None]
             ELSE FillLoop(vis, i + 1, pushed, range_end)

\* a fill_buffer that forgets where to resume when the buffer is full
fill_buffer_NoRemainder(s, it) ==
    IF Len(it.buffer) >= BUFFER_SIZE THEN it
    ELSE IF it.remainder = None THEN it
    ELSE [it EXCEPT !.buffer = FillLoop(VersionIterator(s, it.state, it.remainder[1]),
                                        1, it.buffer, it.remainder[1][2]).buffer,
                    !.remainder = None]

\* the iterator after the loop of fill_buffer ended with f = [buffer, remainder]
Filled(it, f) == [it EXCEPT !.buffer = f.buffer, !.remainder = f.remainder]
\* MvccScanIterator::fill_buffer
fill_buffer(s, it) ==
    IF Len(it.buffer) >= BUFFER_SIZE THEN it
    ELSE IF it.remainder = None THEN it
    ELSE Filled(it, FillLoop(VersionIterator(s, it.state, it.remainder[1]),
                             1, it.buffer, it.remainder[1][2]))

\* self.buffer.pop_front() of MvccScanIterator::next: [it, item]
PopFront(filled) ==
    IF filled.buffer = <<>> THEN [it |-> filled, item |-> None]
    ELSE [it |-> [filled EXCEPT !.buffer = Tail(filled.buffer)],
          item |-> Some(Head(filled.buffer))]
\* MvccScanIterator::next: [it, item]
MvccScanNext(s, it) == PopFront(IF it.buffer = <<>> THEN fill_buffer(s, it) ELSE it)

RECURSIVE ScanCollect(_, _)
\* the items from the outcome n of one next() on
CollectFrom(s, n) ==
    IF n.item = None THEN <<>> ELSE <<n.item[1]>> \o ScanCollect(s, n.it)
\* every item of the iterator, by calling next until None (try_collect)
ScanCollect(s, it) == CollectFrom(s, MvccScanNext(s, it))

----------------------------------------------------------------------------
(* The MVCC operations as steps *)

Handles == 1..Len(txns)
Active(h) == h \in Handles /\ txns[h].st = "active"

Extend(f, k, v) == [x \in DOMAIN f \cup {k} |-> IF x = k THEN v ELSE f[x]]

NoKey == <<>>
Ret(op, h, key, res, val) == [op |-> op, h |-> h, key |-> key, res |-> res, val |-> val]

\* let h = mvcc.begin()
BeginOp(maxv) ==
    /\ Len(txns) < maxv
    /\ LET b == MvccBegin(store)
       IN  /\ store' = b.store
           /\ txns' = Append(txns, [state |-> b.state, st |-> "active"])
           /\ ghost' = Append(ghost,
                  [writes |-> <<>>, wrote |-> {}, pre |-> <<>>,
                   active_before |-> {g \in Handles : txns[g].st = "active"}])
           /\ ret' = Ret("begin", Len(txns) + 1, NoKey, "Ok", None)
    /\ UNCHANGED nwrites

\* h.set(key, value) for value = Some(v), h.delete(key) for value = None
WriteOp(h, key, value, maxw) ==
    /\ Active(h)
    /\ nwrites < maxw
    /\ nwrites' = nwrites + 1
    /\ LET w == write_version(store, txns[h].state, key, value)
       IN  /\ store' = w.store
           /\ ret' = Ret(IF value = None THEN "delete" ELSE "set", h, key, w.res, value)
           /\ ghost' = [ghost EXCEPT ![h] =
                  [@ EXCEPT
                     !.wrote = IF w.res = "Ok" THEN @ \cup {key} ELSE @,
                     !.pre = IF w.res = "Ok" /\ key \notin DOMAIN @
                             THEN Extend(@, key, MvccGet(store, txns[h].state, key))
                             ELSE @,
                     !.writes = IF w.res = "Ok" THEN Extend(@, key, value) ELSE @]]
    /\ UNCHANGED txns

\* h.get(key)
GetOp(h, key) ==
    /\ Active(h)
    /\ ret' = Ret("get", h, key, "Ok", MvccGet(store, txns[h].state, key))
    /\ UNCHANGED <<store, txns, ghost, nwrites>>

\* h.commit()
CommitOp(h) ==
    /\ Active(h)
    /\ store' = MvccCommit(store, txns[h].state)
    /\ txns' = [txns EXCEPT ![h].st = "committed"]
    /\ ret' = Ret("commit", h, NoKey, "Ok", None)
    /\ ghost' = [ghost EXCEPT ![h].pre = <<>>]
    /\ UNCHANGED nwrites

\* h.rollback()
RollbackOp(h) ==
    /\ Active(h)
    /\ store' = MvccRollback(store, txns[h].state)
    /\ txns' = [txns EXCEPT ![h].st = "rolledback"]
    /\ ret' = Ret("rollback", h, NoKey, "Ok", None)
    /\ ghost' = [ghost EXCEPT ![h].writes = <<>>, ![h].pre = <<>>]
    /\ UNCHANGED nwrites

----------------------------------------------------------------------------
(* Spec: several MVCC transactions on one store *)

Sessions == {"A", "B"}

NoScan == [open |-> FALSE, h |-> 0, kind |-> "range", arg |-> <<Unbounded, Unbounded>>,
           it |-> MvccScanIteratorNew(
               [version |-> 0, read_only |-> FALSE, active_txns |-> {}],
               <<Unbounded, Unbounded>>),
           out |-> <<>>, done |-> FALSE]

InitMvcc ==
    /\ store = <<>>
    /\ txns = <<>>
    /\ ghost = <<>>
    /\ ret = Ret("new", 0, NoKey, "Ok", None)
    /\ nwrites = 0

IdleSess ==
    /\ cur = [c \in Sessions |-> 0]
    /\ sret = [op |-> "new", c |-> "A", res |-> "Ok"]
    /\ s3 = 0

IdleScan == scan = NoScan

IdleBitcask ==
    /\ log = <<>>
    /\ key_dir = <<>>
    /\ hist = <<>>
    /\ bret = [op |-> "new", res |-> "Ok", val |-> None]

IdleLocal == lret = [op |-> "new", h |-> 0, table |-> <<>>, arg |-> <<>>, res |-> [err |-> "Ok"]]

IdleServer ==
    /\ serving = "none"
    /\ conn = [c \in Sessions |-> "closed"]
    /\ inbox = [c \in Sessions |-> <<>>]
    /\ resp = [c |-> "none", results |-> <<>>]
    /\ mid = [c |-> "none", batch |-> <<>>, held |-> 0, failed |-> 0]

IdlePure == input = <<>> /\ output = <<>>

Init == InitMvcc /\ IdleSess /\ IdleScan /\ IdleBitcask /\ IdleLocal /\ IdleServer /\ IdlePure

Begin == BeginOp(MaxVersion) /\ UNCHANGED <<sessVars, scan, bitcaskVars, restVars>>
Set == \E h \in Handles, k \in Keys, v \in Vals :
           WriteOp(h, k, Some(v), MaxWrites) /\ UNCHANGED <<sessVars, scan, bitcaskVars, restVars>>
Delete == \E h \in Handles, k \in Keys :
           WriteOp(h, k, None, MaxWrites) /\ UNCHANGED <<sessVars, scan, bitcaskVars, restVars>>
Get == \E h \in Handles, k \in Keys :
           GetOp(h, k) /\ UNCHANGED <<sessVars, scan, bitcaskVars, restVars>>
Commit == \E h \in Handles : CommitOp(h) /\ UNCHANGED <<sessVars, scan, bitcaskVars, restVars>>
Rollback == \E h \in Handles : RollbackOp(h) /\ UNCHANGED <<sessVars, scan, bitcaskVars, restVars>>

Next == Begin \/ Set \/ Delete \/ Get \/ Commit \/ Rollback

Spec == Init /\ [][Next]_vars

----------------------------------------------------------------------------
(* Properties of Spec *)

SetMax(S) == CHOOSE x \in S : \A y \in S : y <= x
Range(f) == {f[i] : i \in DOMAIN f}

\* the versions w for which the store holds a record Version(k, w)
RecordVersions(s, k) ==
    {KeyDecode(x).version :
        x \in {y \in DOMAIN s : KeyDecode(y).ok /\ KeyDecode(y).tag = 4
                                  /\ KeyDecode(y).key = k}}

\* the payload of the highest-versioned record Version(k, w), w <= v, w not in S
NewestVisiblePayload(s, state, k) ==
    LET ws == {w \in RecordVersions(s, k) :
                  w <= state.version /\ w \notin state.active_txns}
    IN  IF ws = {} THEN None
        ELSE bincode_deserialize(s[KeyVersion(k, SetMax(ws))])

\* the transactions that committed before h began
CommittedBefore(h) ==
    {g \in Handles : g < h /\ g \notin ghost[h].active_before
                     /\ txns[g].st = "committed"}

\* what h may read of k: its own last write, else the last write of the newest
\* transaction that committed before h began
ExpectedRead(h, k) ==
    LET src == {g \in CommittedBefore(h) \cup {h} : k \in DOMAIN ghost[g].writes}
    IN  IF src = {} THEN None ELSE ghost[SetMax(src)].writes[k]

\* C1: in every reachable state, get(k) in an active read-write transaction
\* returns the payload of the newest record Version(k, w) with w <= v and w
\* outside the snapshot, and that is the transaction's own last write of k or
\* else the last write of the newest transaction that committed before it began
\* (never a write of a transaction active at its begin, begun later, or rolled back).
C1_SnapshotReads ==
    /\ \A h \in Handles : Active(h) =>
          \A k \in Keys :
             /\ MvccGet(store, txns[h].state, k)
                    = NewestVisiblePayload(store, txns[h].state, k)
             /\ MvccGet(store, txns[h].state, k) = ExpectedRead(h, k)
    /\ (ret.op = "get" /\ Active(ret.h)) => ret.val = ExpectedRead(ret.h, ret.key)

\* a get that returned None for a key whose value was committed by a
\* transaction that was active when the reader began
C1_Witness ==
    /\ ret.op = "get"
    /\ ret.val = None
    /\ \E g \in Handles :
          /\ g \in ghost[ret.h].active_before
          /\ txns[g].st = "committed"
          /\ ret.key \in DOMAIN ghost[g].writes
          /\ ghost[g].writes[ret.key] # None

\* g and h are concurrent: the later one began while the earlier one was active
Concurrent(g, h) ==
    \/ g < h /\ g \in ghost[h].active_before
    \/ h < g /\ h \in ghost[g].active_before

IsWriteStep == nwrites' = nwrites + 1

\* C2 as stated: whenever a transaction calls set or delete on a key that a
\* concurrent transaction has already written, the call fails with OutOfOrder
\* and writes nothing.
C2_AsStated ==
    [][IsWriteStep =>
          \A o \in Handles \ {ret'.h} :
             (Concurrent(o, ret'.h) /\ ret'.key \in ghost[o].wrote)
                => (ret'.res = "OutOfOrder" /\ store' = store)]_vars

\* C2: whenever a transaction calls set or delete on a key that a concurrent
\* transaction has already written with success and that transaction has not
\* rolled back, the call fails with OutOfOrder and leaves the store as it was
\* (no Version record, no TransactionWrite marker), whichever of the two began first.
C2_WriteWriteConflict ==
    [][IsWriteStep =>
          \A o \in Handles \ {ret'.h} :
             (Concurrent(o, ret'.h) /\ ret'.key \in ghost[o].wrote
                 /\ txns[o].st # "rolledback")
                => (ret'.res = "OutOfOrder" /\ store' = store)]_vars

\* the older of two concurrent transactions wrote second and failed
C2_Witness ==
    /\ ret.op \in {"set", "delete"}
    /\ ret.res = "OutOfOrder"
    /\ \E o \in Handles :
          /\ ret.h < o
          /\ Concurrent(o, ret.h)
          /\ ret.key \in ghost[o].wrote
          /\ txns[o].st # "rolledback"
    /\ KeyVersion(ret.key, txns[ret.h].state.version) \notin DOMAIN store
    /\ KeyTransactionWrite(txns[ret.h].state.version, ret.key) \notin DOMAIN store

\* what a transaction that begins on store s reads for k
FreshGet(s, k) == LET b == MvccBegin(s) IN MvccGet(b.store, b.state, k)

\* what a transaction that begins on store s gets from a scan of every key
FreshScan(s) ==
    LET b == MvccBegin(s)
    IN  ScanCollect(b.store,
            MvccScanIteratorNew(b.state, MvccScanRange(<<Unbounded, Unbounded>>)))

\* the keys of the store that decode to the given tags with version v
KeysOf(s, tags, v) ==
    {x \in DOMAIN s : KeyDecode(x).ok /\ KeyDecode(x).tag \in tags
                      /\ KeyDecode(x).version = v}

\* C3: a rollback step of T leaves no Version(k, v_T), no TransactionWrite(v_T, *)
\* and no ActiveTransaction(v_T) in the store, and a transaction that begins
\* right after it reads, for every key, what T read before it first wrote the
\* key (for keys T did not write: what a beginner read before the rollback);
\* the records of a rolled-back transaction never come back.
C3_RollbackUndoes ==
    [][/\ \A h \in Handles :
             (txns[h].st = "active" /\ txns'[h].st = "rolledback") =>
                /\ KeysOf(store', {1, 3, 4}, txns[h].state.version) = {}
                /\ \A k \in Keys :
                      FreshGet(store', k) =
                         IF k \in DOMAIN ghost[h].pre THEN ghost[h].pre[k]
                         ELSE FreshGet(store, k)
       /\ \A h \in Handles :
             txns'[h].st = "rolledback" =>
                KeysOf(store', {1, 3, 4}, txns[h].state.version) = {}]_vars

\* a transaction overwrote a committed value, rolled back, and a beginner
\* reads the committed value again
C3_Witness ==
    /\ ret.op = "rollback"
    /\ \E k \in ghost[ret.h].wrote :
          \E g \in Handles :
             /\ txns[g].st = "committed"
             /\ k \in DOMAIN ghost[g].writes
             /\ ghost[g].writes[k] # None
             /\ FreshGet(store, k) = ghost[g].writes[k]

\* C4: a commit step of T makes every write of T what a transaction beginning
\* right after it gets (by get; by scan a set key with its value, a deleted key
\* not at all), keeps every Version(k, v_T) record with the payload T wrote, and
\* leaves no TransactionWrite(v_T, *) and no ActiveTransaction(v_T); the records
\* of a committed transaction stay and its markers never come back.
C4_CommitPublishes ==
    [][/\ \A h \in Handles :
             (txns[h].st = "active" /\ txns'[h].st = "committed") =>
                \A k \in DOMAIN ghost[h].writes :
                   /\ FreshGet(store', k) = ghost[h].writes[k]
                   /\ ghost[h].writes[k] # None =>
                         /\ <<k, ghost[h].writes[k][1]>> \in Range(FreshScan(store'))
                         /\ Cardinality({i \in DOMAIN FreshScan(store') :
                                            FreshScan(store')[i][1] = k}) = 1
                   /\ ghost[h].writes[k] = None =>
                         \A e \in Range(FreshScan(store')) : e[1] # k
       /\ \A h \in Handles :
             txns'[h].st = "committed" =>
                /\ KeysOf(store', {1, 3}, txns[h].state.version) = {}
                /\ \A k \in DOMAIN ghost[h].writes :
                      /\ KeyVersion(k, txns[h].state.version) \in DOMAIN store'
                      /\ store'[KeyVersion(k, txns[h].state.version)]
                            = bincode_serialize(ghost[h].writes[k])]_vars

\* a transaction deleted a key that held a committed value, committed, and a
\* beginner no longer reads the key
C4_Witness ==
    /\ ret.op = "commit"
    /\ \E k \in DOMAIN ghost[ret.h].writes :
          /\ ghost[ret.h].writes[k] = None
          /\ FreshGet(store, k) = None
          /\ \E g \in Handles :
                /\ g < ret.h
                /\ txns[g].st = "committed"
                /\ k \in DOMAIN ghost[g].writes
                /\ ghost[g].writes[k] # None

----------------------------------------------------------------------------
(* SpecSession: sessions (exec/session.rs) on one engine, their statements  *)
(* answered as Server::process_request answers them.  Any number of         *)
(* sessions may be open at once and their statements interleave; a          *)
(* statement runs to completion (Session::exec takes &mut self).            *)

\* i64::to_be_bytes, for values between -2^31 and 2^31: two's complement
I64ToBeBytes(v) ==
    IF v >= 0 THEN ToBeBytes8(v) ELSE [i \in 1..8 |-> 255 - ToBeBytes8(-v - 1)[i]]
\* bytes[0] ^= 1 << 7
FlipSignBit(bytes) == [i \in 1..8 |-> IF i = 1 THEN (bytes[1] + 128) % 256 ELSE bytes[i]]
\* a serialize_i64 that writes the big-endian bytes as they are
serialize_i64_NoFlip(v) == I64ToBeBytes(v)
\* KeycodeSerializer::serialize_i64
serialize_i64(v) == FlipSignBit(I64ToBeBytes(v))

\* the table of the sessions' statements: "t", with an integer primary key,
\* no secondary index and no foreign key
TableName == <<116>>
\* local::Key::Table(name).encode()
TableKey == <<0>> \o serialize_bytes(TableName)
\* local::Key::Row(name, Value::Integer(id)).encode()
RowKey(id) == <<2>> \o serialize_bytes(TableName) \o <<2>> \o serialize_i64(id)
\* local::KeyPrefix::Row(name).encode()
RowPrefix == <<2>> \o serialize_bytes(TableName)

Ids == {1}
Payloads == {7, 8}
\* row.encode(), abbreviated to the id and one payload byte
RowEncode(id, x) == <<id, x>>
TableEncode == <<116>>

\* LocalTransaction::scan(table, filter id = ...) collected: the ids of the
\* rows the transaction sees
VisibleIds(s, state) ==
    LET rows == ScanCollect(s, MvccScanIteratorNew(state, MvccScanPrefixRange(RowPrefix)))
    IN  {id \in Ids : \E i \in DOMAIN rows : rows[i][1] = RowKey(id)}

\* Executor::insert then LocalTransaction::insert of one row: [store, res]
TxnInsert(s, state, id, x) ==
    IF MvccGet(s, state, TableKey) = None
    THEN [store |-> s, res |-> "TableDoesNotExist"]
    ELSE write_version(s, state, RowKey(id), Some(RowEncode(id, x)))

\* Executor::delete then LocalTransaction::delete for WHERE id = ...: [store, res]
TxnDelete(s, state, id) ==
    IF MvccGet(s, state, TableKey) = None
    THEN [store |-> s, res |-> "TableDoesNotExist"]
    ELSE IF id \notin VisibleIds(s, state) THEN [store |-> s, res |-> "Ok"]
    ELSE write_version(s, state, RowKey(id), None)

SRet(op, c, res) == [op |-> op, c |-> c, res |-> res]

\* the statements of scenario S3, in order
S3Ops == <<"begin", "delete", "insert", "begin", "delete", "commit", "commit">>
S3Who == <<"A", "A", "A", "B", "B", "B", "A">>
S3Args == <<<<>>, <<1>>, <<1, 8>>, <<>>, <<1>>, <<>>, <<>>>>
S3Len == Len(S3Ops)

\* the scenario starts with row 1 committed and no transaction open or left over
S3Start ==
    /\ \A c \in Sessions : cur[c] = 0
    /\ scan_active_txns(store) = {}
    /\ FreshGet(store, RowKey(1)) # None

\* s3 counts the statements of the script that the run has just made, in order
S3Step(op, c, args) ==
    s3' = IF /\ s3 < S3Len
             /\ S3Ops[s3 + 1] = op /\ S3Who[s3 + 1] = c /\ S3Args[s3 + 1] = args
             /\ (s3 = 0 => S3Start)
          THEN s3 + 1
          ELSE IF op = "begin" /\ c = "A" /\ S3Start THEN 1
          ELSE 0

\* Executor::execute: the statement run in transaction state on store s
Statement(op, s, state, id, x) ==
    IF op = "insert" THEN TxnInsert(s, state, id, x) ELSE TxnDelete(s, state, id)

\* Session::with_transaction(f), and process_request's session.rollback() when
\* the statement fails
WithTransaction(c, op, id, x) ==
    IF cur[c] # 0
    THEN LET h == cur[c]
             r == Statement(op, store, txns[h].state, id, x)
         IN  /\ sret' = SRet(op, c, r.res)
             /\ IF r.res = "Ok"
                THEN /\ store' = r.store
                     /\ UNCHANGED <<txns, cur>>
                ELSE /\ store' = MvccRollback(r.store, txns[h].state)
                     /\ txns' = [txns EXCEPT ![h].st = "rolledback"]
                     /\ cur' = [cur EXCEPT ![c] = 0]
    ELSE /\ Len(txns) < MaxSessVersion
         /\ LET b == MvccBegin(store)
                r == Statement(op, b.store, b.state, id, x)
            IN  /\ sret' = SRet(op, c, r.res)
                /\ store' = IF r.res = "Ok" THEN MvccCommit(r.store, b.state)
                            ELSE MvccRollback(r.store, b.state)
                /\ txns' = Append(txns,
                       [state |-> b.state,
                        st |-> IF r.res = "Ok" THEN "committed" ELSE "rolledback"])
                /\ UNCHANGED cur

\* BEGIN: Session::begin; on AlreadyInTransaction process_request rolls back
StmtBegin(c) ==
    /\ IF cur[c] # 0
       THEN /\ sret' = SRet("begin", c, "AlreadyInTransaction")
            /\ store' = MvccRollback(store, txns[cur[c]].state)
            /\ txns' = [txns EXCEPT ![cur[c]].st = "rolledback"]
            /\ cur' = [cur EXCEPT ![c] = 0]
       ELSE /\ Len(txns) < MaxSessVersion
            /\ LET b == MvccBegin(store)
               IN  /\ store' = b.store
                   /\ txns' = Append(txns, [state |-> b.state, st |-> "active"])
                   /\ cur' = [cur EXCEPT ![c] = Len(txns) + 1]
            /\ sret' = SRet("begin", c, "Ok")
    /\ S3Step("begin", c, <<>>)
    /\ UNCHANGED <<ghost, ret, nwrites, scan, bitcaskVars, restVars>>

\* COMMIT: Session::commit
StmtCommit(c) ==
    /\ IF cur[c] # 0
       THEN /\ store' = MvccCommit(store, txns[cur[c]].state)
            /\ txns' = [txns EXCEPT ![cur[c]].st = "committed"]
            /\ cur' = [cur EXCEPT ![c] = 0]
            /\ sret' = SRet("commit", c, "Ok")
       ELSE /\ sret' = SRet("commit", c, "NotInTransaction")
            /\ UNCHANGED <<store, txns, cur>>
    /\ S3Step("commit", c, <<>>)
    /\ UNCHANGED <<ghost, ret, nwrites, scan, bitcaskVars, restVars>>

\* ROLLBACK: Session::rollback
StmtRollback(c) ==
    /\ IF cur[c] # 0
       THEN /\ store' = MvccRollback(store, txns[cur[c]].state)
            /\ txns' = [txns EXCEPT ![cur[c]].st = "rolledback"]
            /\ cur' = [cur EXCEPT ![c] = 0]
            /\ sret' = SRet("rollback", c, "Ok")
       ELSE /\ sret' = SRet("rollback", c, "NotInTransaction")
            /\ UNCHANGED <<store, txns, cur>>
    /\ S3Step("rollback", c, <<>>)
    /\ UNCHANGED <<ghost, ret, nwrites, scan, bitcaskVars, restVars>>

\* INSERT INTO t VALUES (id, x)
StmtInsert(c, id, x) ==
    /\ WithTransaction(c, "insert", id, x)
    /\ S3Step("insert", c, <<id, x>>)
    /\ UNCHANGED <<ghost, ret, nwrites, scan, bitcaskVars, restVars>>

\* DELETE FROM t WHERE id = ...
StmtDelete(c, id) ==
    /\ WithTransaction(c, "delete", id, 0)
    /\ S3Step("delete", c, <<id>>)
    /\ UNCHANGED <<ghost, ret, nwrites, scan, bitcaskVars, restVars>>

\* the connection ends: sql_session returns and its Session is dropped, and
\* with it the transaction it holds (no type here implements Drop)
Close(c) ==
    /\ cur[c] # 0
    /\ txns' = [txns EXCEPT ![cur[c]].st = "dropped"]
    /\ cur' = [cur EXCEPT ![c] = 0]
    /\ sret' = SRet("close", c, "Ok")
    /\ s3' = 0
    /\ UNCHANGED <<store, ghost, ret, nwrites, scan, bitcaskVars, restVars>>

\* CREATE TABLE t and INSERT of row 1, each in its implicit transaction
SetupStore ==
    LET b1 == MvccBegin(<<>>)
        w1 == write_version(b1.store, b1.state, TableKey, Some(TableEncode))
        s1 == MvccCommit(w1.store, b1.state)
        b2 == MvccBegin(s1)
        w2 == TxnInsert(b2.store, b2.state, 1, 7)
    IN  [store |-> MvccCommit(w2.store, b2.state),
         txns |-> <<[state |-> b1.state, st |-> "committed"],
                    [state |-> b2.state, st |-> "committed"]>>]

InitSession ==
    /\ store = SetupStore.store
    /\ txns = SetupStore.txns
    /\ ghost = <<>>
    /\ ret = Ret("new", 0, NoKey, "Ok", None)
    /\ nwrites = 0
    /\ IdleSess /\ IdleScan /\ IdleBitcask /\ IdleLocal /\ IdleServer /\ IdlePure

SBegin == \E c \in Sessions : StmtBegin(c)
SCommit == \E c \in Sessions : StmtCommit(c)
SRollback == \E c \in Sessions : StmtRollback(c)
SInsert == \E c \in Sessions, id \in Ids, x \in Payloads : StmtInsert(c, id, x)
SDelete == \E c \in Sessions, id \in Ids : StmtDelete(c, id)
SClose == \E c \in Sessions : Close(c)

NextSession == SBegin \/ SCommit \/ SRollback \/ SInsert \/ SDelete \/ SClose

SpecSession == InitSession /\ [][NextSession]_vars

\* C5: in every reachable state, a transaction that was dropped with its
\* session has no Version record and no ActiveTransaction marker in the store.
C5_DroppedIsRolledBack ==
    \A h \in Handles :
       txns[h].st = "dropped" => KeysOf(store, {1, 4}, txns[h].state.version) = {}

----------------------------------------------------------------------------
(* SpecBitcask: storage/bitcask.rs, the log as the bytes of its file *)

BKeys == {<<1>>, <<2, 0>>}
BVals == {<<>>, <<7>>, <<8, 9>>}
BRanges == {<<Unbounded, Unbounded>>, <<Included(<<1>>), Excluded(<<2, 0>>)>>,
            <<Excluded(<<1>>), Unbounded>>}

\* u32::to_be_bytes, for values below 2^31
U32Be(n) == <<(n \div 16777216) % 256, (n \div 65536) % 256, (n \div 256) % 256, n % 256>>
\* i32::to_be_bytes (two's complement)
I32Be(n) == IF n >= 0 THEN U32Be(n) ELSE [i \in 1..4 |-> 255 - U32Be(-n - 1)[i]]
\* u32::from_be_bytes, for values below 2^31
U32FromBe(b) == b[1] * 16777216 + b[2] * 65536 + b[3] * 256 + b[4]
\* i32::from_be_bytes
I32FromBe(b) ==
    IF b[1] >= 128 THEN -(U32FromBe([i \in 1..4 |-> 255 - b[i]]) + 1) ELSE U32FromBe(b)

Location(offset, size) == [offset |-> offset, size |-> size]

\* a write_entry that returns the offset of the record instead of its value
write_entry_RecordOffset(file, key, value) ==
    [log |-> file \o U32Be(Len(key))
                  \o I32Be(IF value = None THEN -1 ELSE Len(value[1]))
                  \o key \o (IF value = None THEN <<>> ELSE value[1]),
     location |-> Location(Len(file), IF value = None THEN 0 ELSE Len(value[1]))]

\* Log::write_entry: [log, location]
write_entry(file, key, value) ==
    LET offset == Len(file)
        value_length == IF value = None THEN -1 ELSE Len(value[1])
    IN  [log |-> file \o U32Be(Len(key)) \o I32Be(value_length)
                      \o key \o (IF value = None THEN <<>> ELSE value[1]),
         location |-> Location(offset + 8 + Len(key),
                               IF value = None THEN 0 ELSE Len(value[1]))]

\* Log::read: [ok, data]; read_exact fails when the file ends too soon
LogRead(file, offset, size) ==
    IF offset + size > Len(file) THEN [ok |-> FALSE, data |-> <<>>]
    ELSE [ok |-> TRUE, data |-> SubSeq(file, offset + 1, offset + size)]

\* KeyDir (a BTreeMap): insert and remove
key_dir_insert(kd, key, location) ==
    [x \in DOMAIN kd \cup {key} |-> IF x = key THEN location ELSE kd[x]]

\* a remove that removes nothing
key_dir_remove_Nothing(kd, key) == kd

key_dir_remove(kd, key) == [x \in DOMAIN kd \ {key} |-> kd[x]]

\* Bitcask::set: [log, key_dir]
BitcaskSet(file, kd, key, value) ==
    LET w == write_entry(file, key, Some(value))
    IN  [log |-> w.log, key_dir |-> key_dir_insert(kd, key, w.location)]

\* Bitcask::delete: [log, key_dir]
BitcaskDelete(file, kd, key) ==
    LET w == write_entry(file, key, None)
    IN  [log |-> w.log, key_dir |-> key_dir_remove(kd, key)]

\* Bitcask::get: [ok, val]
BitcaskGet(file, kd, key) ==
    IF key \in DOMAIN kd
    THEN LET r == LogRead(file, kd[key].offset, kd[key].size)
         IN  [ok |-> r.ok, val |-> IF r.ok THEN Some(r.data) ELSE None]
    ELSE [ok |-> TRUE, val |-> None]

\* Bitcask::scan(range) collected through next: the (key, value) pairs
BitcaskScan(file, kd, range) ==
    LET keys == SortBytes({k \in DOMAIN kd : RangeContains(range, k)})
    IN  [i \in 1..Len(keys) |->
            <<keys[i], LogRead(file, kd[keys[i]].offset, kd[keys[i]].size).data>>]

\* Bitcask::scan(range) collected through next_back
BitcaskScanBack(file, kd, range) == Reverse(BitcaskScan(file, kd, range))

\* a recovery loop without the check of the value's end against the file length
RECURSIVE RebuildLoop_NoSizeCheck(_, _, _)
RebuildLoop_NoSizeCheck(file, offset, kd) ==
    IF offset >= Len(file) THEN [ok |-> TRUE, key_dir |-> kd]
    ELSE IF offset + 8 > Len(file) THEN [ok |-> FALSE, key_dir |-> kd]
    ELSE
    LET key_len == U32FromBe(SubSeq(file, offset + 1, offset + 4))
        size == I32FromBe(SubSeq(file, offset + 5, offset + 8))
    IN  IF offset + 8 + key_len > Len(file) THEN [ok |-> FALSE, key_dir |-> kd]
        ELSE LET key == SubSeq(file, offset + 9, offset + 8 + key_len)
             IN  RebuildLoop_NoSizeCheck(file,
                    offset + 8 + key_len + (IF size < 0 THEN 0 ELSE size),
                    IF size < 0 THEN key_dir_remove(kd, key)
                    ELSE key_dir_insert(kd, key, Location(offset + 8 + key_len, size)))

\* the while loop of rebuild_key_dir from offset on: [ok, key_dir]
RECURSIVE RebuildLoop(_, _, _)
RebuildLoop(file, offset, kd) ==
    IF offset >= Len(file) THEN [ok |-> TRUE, key_dir |-> kd]
    ELSE IF offset + 4 > Len(file) THEN [ok |-> FALSE, key_dir |-> kd]
    ELSE IF offset + 8 > Len(file) THEN [ok |-> FALSE, key_dir |-> kd]
    ELSE
    LET key_len == U32FromBe(SubSeq(file, offset + 1, offset + 4))
        size == I32FromBe(SubSeq(file, offset + 5, offset + 8))
        location == IF size < 0 THEN None
                    ELSE Some(Location(offset + 8 + key_len, size))
    IN  IF offset + 8 + key_len > Len(file) THEN [ok |-> FALSE, key_dir |-> kd]
        ELSE IF location # None /\ location[1].offset + location[1].size > Len(file)
        THEN [ok |-> FALSE, key_dir |-> kd]
        ELSE LET key == SubSeq(file, offset + 9, offset + 8 + key_len)
             IN  RebuildLoop(file,
                    offset + 8 + key_len + (IF location = None THEN 0 ELSE location[1].size),
                    IF location # None THEN key_dir_insert(kd, key, location[1])
                    ELSE key_dir_remove(kd, key))

\* Bitcask::rebuild_key_dir: [ok, key_dir], ok = FALSE for Err(Error::Io)
rebuild_key_dir(file) == RebuildLoop(file, 0, <<>>)

BRet(op, arg, res) == [op |-> op, arg |-> arg, res |-> res]

\* bitcask.set(key, value)
BSet ==
    \E k \in BKeys, v \in BVals :
       /\ Len(hist) < MaxOps
       /\ LET b == BitcaskSet(log, key_dir, k, v)
          IN  /\ log' = b.log
              /\ key_dir' = b.key_dir
              /\ hist' = Append(hist, [key |-> k, value |-> Some(v), end |-> Len(b.log)])
       /\ bret' = BRet("set", k, "Ok")
       /\ UNCHANGED <<mvccVars, sessVars, scan, restVars>>

\* bitcask.delete(key)
BDelete ==
    \E k \in BKeys :
       /\ Len(hist) < MaxOps
       /\ LET b == BitcaskDelete(log, key_dir, k)
          IN  /\ log' = b.log
              /\ key_dir' = b.key_dir
              /\ hist' = Append(hist, [key |-> k, value |-> None, end |-> Len(b.log)])
       /\ bret' = BRet("delete", k, "Ok")
       /\ UNCHANGED <<mvccVars, sessVars, scan, restVars>>

\* bitcask.flush(): the log has no buffer of its own, every record is written
\* through by write_entry
BFlush ==
    /\ bret' = BRet("flush", <<>>, "Ok")
    /\ UNCHANGED <<log, key_dir, hist, mvccVars, sessVars, scan, restVars>>

\* bitcask.get(key)
BGet ==
    \E k \in BKeys :
       /\ bret' = BRet("get", k, BitcaskGet(log, key_dir, k))
       /\ UNCHANGED <<log, key_dir, hist, mvccVars, sessVars, scan, restVars>>

\* bitcask.scan(range).collect()
BScan ==
    \E r \in BRanges :
       /\ bret' = BRet("scan", r, BitcaskScan(log, key_dir, r))
       /\ UNCHANGED <<log, key_dir, hist, mvccVars, sessVars, scan, restVars>>

\* bitcask.scan(range).rev().collect()
BScanBack ==
    \E r \in BRanges :
       /\ bret' = BRet("scan_back", r, BitcaskScanBack(log, key_dir, r))
       /\ UNCHANGED <<log, key_dir, hist, mvccVars, sessVars, scan, restVars>>

\* bitcask.rebuild_key_dir() on the log as it is
BRebuild ==
    /\ LET r == rebuild_key_dir(log)
       IN  /\ key_dir' = r.key_dir
           /\ bret' = BRet("rebuild", <<>>, IF r.ok THEN "Ok" ELSE "Io")
    /\ UNCHANGED <<log, hist, mvccVars, sessVars, scan, restVars>>

\* the ends of the records of the log
RecordEnds == {0} \cup {hist[i].end : i \in DOMAIN hist}

\* Bitcask::new on the first cut bytes of the log (what a crash during a write
\* leaves behind): the store it returns replaces this one, an error leaves none
BOpen ==
    \E cut \in 0..Len(log) :
       LET r == rebuild_key_dir(SubSeq(log, 1, cut))
       IN  IF r.ok
           THEN /\ log' = SubSeq(log, 1, cut)
                /\ key_dir' = r.key_dir
                /\ hist' = SelectSeq(hist, LAMBDA e : e.end <= cut)
                /\ bret' = BRet("open", cut, "Ok")
                /\ UNCHANGED <<mvccVars, sessVars, scan, restVars>>
           ELSE /\ bret' = BRet("open", cut, "Io")
                /\ UNCHANGED <<log, key_dir, hist, mvccVars, sessVars, scan, restVars>>

NextBitcask == BSet \/ BDelete \/ BFlush \/ BGet \/ BScan \/ BScanBack \/ BRebuild \/ BOpen

SpecBitcask == Init /\ [][NextBitcask]_vars

\* the set/delete calls on k, by position in the history
OpsOn(k) == {i \in DOMAIN hist : hist[i].key = k}
\* the value of the last set(k, .) not followed by delete(k), else None
LastValue(k) == IF OpsOn(k) = {} THEN None ELSE hist[SetMax(OpsOn(k))].value
LiveKeys == {k \in BKeys : LastValue(k) # None}

\* r lists exactly the live keys of the range, ascending, with their values
IsScanOf(r, range) ==
    /\ \A i \in DOMAIN r : \A j \in DOMAIN r : i < j => BytesLess(r[i][1], r[j][1])
    /\ {r[i][1] : i \in DOMAIN r} = {k \in LiveKeys : RangeContains(range, k)}
    /\ \A i \in DOMAIN r : Some(r[i][2]) = LastValue(r[i][1])

\* C7: after any sequence of set, delete and flush (and of rebuilds and
\* reopenings), get(k) returns the value of the last set(k, .) not followed by
\* delete(k) and None otherwise, scan(range) lists exactly the live keys of
\* the range once each in ascending byte order with their current values, and
\* next_back lists them in the opposite order.
C7_StorageRoundTrip ==
    /\ \A k \in BKeys : BitcaskGet(log, key_dir, k) = [ok |-> TRUE, val |-> LastValue(k)]
    /\ \A r \in BRanges :
          /\ IsScanOf(BitcaskScan(log, key_dir, r), r)
          /\ IsScanOf(Reverse(BitcaskScanBack(log, key_dir, r)), r)
    /\ bret.op = "get" => bret.res = [ok |-> TRUE, val |-> LastValue(bret.arg)]
    /\ bret.op = "scan" => IsScanOf(bret.res, bret.arg)
    /\ bret.op = "scan_back" => IsScanOf(Reverse(bret.res), bret.arg)

\* a scan that returned one key after another key was set and deleted
C7_Witness ==
    /\ bret.op = "scan"
    /\ Len(bret.res) = 1
    /\ \E k \in BKeys : OpsOn(k) # {} /\ LastValue(k) = None
                         /\ \E i \in OpsOn(k) : hist[i].value # None

\* C8: in every reachable state, rebuilding the key directory from the log
\* succeeds and yields exactly the in-process key directory (same keys, same
\* offset and size), without the keys whose last record is a tombstone, so
\* get returns the same for every key with either directory.
C8_RecoveryReproducesIndex ==
    /\ rebuild_key_dir(log) = [ok |-> TRUE, key_dir |-> key_dir]
    /\ DOMAIN rebuild_key_dir(log).key_dir = LiveKeys
    /\ \A k \in BKeys :
          BitcaskGet(log, rebuild_key_dir(log).key_dir, k) = BitcaskGet(log, key_dir, k)

\* a rebuild of a log that holds a value record and a tombstone of another key
C8_Witness ==
    /\ bret.op = "rebuild"
    /\ bret.res = "Ok"
    /\ LiveKeys # {}
    /\ \E k \in BKeys \ LiveKeys : \E i \in OpsOn(k) : hist[i].value # None

\* C9: opening the first cut bytes of the log fails with an Io error whenever
\* cut is not the end of a record (it falls inside a header, a key or a
\* value), and an open that fails returns no store.
C9_PartialRecordIsFatal ==
    /\ \A cut \in 0..Len(log) :
          cut \notin RecordEnds => ~rebuild_key_dir(SubSeq(log, 1, cut)).ok
    /\ bret.op = "open" => (bret.res = "Io" <=> bret.arg \notin RecordEnds)

\* an open that failed on a log cut inside the value bytes of its last record
C9_Witness ==
    /\ bret.op = "open"
    /\ bret.res = "Io"
    /\ hist # <<>>
    /\ hist[Len(hist)].value # None
    /\ bret.arg < Len(log)
    /\ bret.arg >= Len(log) - Len(hist[Len(hist)].value[1])

----------------------------------------------------------------------------
(* SpecScan: MVCC scans over more keys than the scan buffer holds, while    *)
(* other transactions write, commit and roll back                           *)

\* the user keys of the store: BUFFER_SIZE + 1 one-byte keys, two longer keys
\* under the last of them, and one key after those
ScanKeys ==
    {<<b>> : b \in 1..(BUFFER_SIZE + 1)}
       \cup {<<BUFFER_SIZE + 1, 0>>, <<BUFFER_SIZE + 1, 255>>, <<BUFFER_SIZE + 2>>}
\* the keys the transactions of SpecScan write: the last key of the first
\* buffer and the first key after it
HotKeys == {<<BUFFER_SIZE>>, <<BUFFER_SIZE + 1>>}
ScanVal == <<9>>
ScanRanges ==
    {<<Unbounded, Unbounded>>,
     <<Excluded(<<1>>), Included(<<BUFFER_SIZE + 1>>)>>,
     <<Included(<<2>>), Excluded(<<BUFFER_SIZE + 1, 255>>)>>}
ScanPrefixes == {<<>>, <<BUFFER_SIZE + 1>>}

\* the first transaction loads the store: it sets every key of ScanKeys, in
\* key order, and commits; the others begin after that
Loaded == Len(txns) >= 1 /\ txns[1].st = "committed"
ScanWriteBound == Cardinality(ScanKeys) + MaxScanWrites

\* h has a scan open: it makes no other call until the scan is closed
Scanning(h) == scan.open /\ scan.h = h

ScBegin ==
    /\ txns = <<>> \/ Loaded
    /\ BeginOp(MaxScanVersion)
    /\ UNCHANGED <<sessVars, scan, bitcaskVars, restVars>>
ScLoad ==
    /\ Active(1)
    /\ ghost[1].wrote # ScanKeys
    /\ LET k == MinBytes(ScanKeys \ ghost[1].wrote)
       IN  WriteOp(1, k, Some(<<k[1]>>), ScanWriteBound)
    /\ UNCHANGED <<sessVars, scan, bitcaskVars, restVars>>
ScSet == \E h \in Handles \ {1}, k \in HotKeys :
            /\ ~Scanning(h)
            /\ WriteOp(h, k, Some(ScanVal), ScanWriteBound)
            /\ UNCHANGED <<sessVars, scan, bitcaskVars, restVars>>
ScDelete == \E h \in Handles \ {1}, k \in HotKeys :
            /\ ~Scanning(h)
            /\ WriteOp(h, k, None, ScanWriteBound)
            /\ UNCHANGED <<sessVars, scan, bitcaskVars, restVars>>
ScCommit == \E h \in Handles :
            /\ ~Scanning(h)
            /\ h = 1 => ghost[1].wrote = ScanKeys
            /\ CommitOp(h)
            /\ UNCHANGED <<sessVars, scan, bitcaskVars, restVars>>
ScRollback == \E h \in Handles \ {1} :
            /\ ~Scanning(h)
            /\ RollbackOp(h)
            /\ UNCHANGED <<sessVars, scan, bitcaskVars, restVars>>

\* let it = h.scan(range)
ScanOpenRange ==
    \E h \in Handles \ {1}, r \in ScanRanges :
       /\ Active(h)
       /\ ~scan.open
       /\ scan' = [open |-> TRUE, h |-> h, kind |-> "range", arg |-> r,
                   it |-> MvccScanIteratorNew(txns[h].state, MvccScanRange(r)),
                   out |-> <<>>, done |-> FALSE]
       /\ UNCHANGED <<mvccVars, sessVars, bitcaskVars, restVars>>

\* let it = h.scan_prefix(prefix)
ScanOpenPrefix ==
    \E h \in Handles \ {1}, p \in ScanPrefixes :
       /\ Active(h)
       /\ ~scan.open
       /\ scan' = [open |-> TRUE, h |-> h, kind |-> "prefix", arg |-> p,
                   it |-> MvccScanIteratorNew(txns[h].state, MvccScanPrefixRange(p)),
                   out |-> <<>>, done |-> FALSE]
       /\ UNCHANGED <<mvccVars, sessVars, bitcaskVars, restVars>>

\* it.next() until the buffer is empty again: the first call locks the engine
\* and fills the buffer, the others only pop from it
ScanFill ==
    /\ scan.open /\ ~scan.done
    /\ LET n == MvccScanNext(store, scan.it)
       IN  IF n.item = None
           THEN scan' = [scan EXCEPT !.it = n.it, !.done = TRUE]
           ELSE scan' = [scan EXCEPT !.it = [n.it EXCEPT !.buffer = <<>>],
                                     !.out = scan.out \o <<n.item[1]>> \o n.it.buffer]
    /\ UNCHANGED <<mvccVars, sessVars, bitcaskVars, restVars>>

\* the iterator is dropped
ScanClose ==
    /\ scan.open /\ scan.done
    /\ scan' = NoScan
    /\ UNCHANGED <<mvccVars, sessVars, bitcaskVars, restVars>>

NextScan == ScBegin \/ ScLoad \/ ScSet \/ ScDelete \/ ScCommit \/ ScRollback
               \/ ScanOpenRange \/ ScanOpenPrefix \/ ScanFill \/ ScanClose

SpecScan == Init /\ [][NextScan]_vars

IsPrefixOf(p, k) == Len(p) <= Len(k) /\ SubSeq(k, 1, Len(p)) = p

\* the user keys the open scan ranges over
KeysInScan ==
    IF scan.kind = "range" THEN {k \in ScanKeys : RangeContains(scan.arg, k)}
    ELSE {k \in ScanKeys : IsPrefixOf(scan.arg, k)}

\* C10: when a scan or scan_prefix of a transaction that makes no other call
\* meanwhile has returned None, what it yielded is in ascending user-key order
\* and holds exactly one entry for each user key of the range whose newest
\* version visible to the transaction is a value, with that value, and nothing
\* for tombstoned or invisible keys, also when the range holds more entries
\* than the buffer and while other transactions write, commit and roll back.
C10_ScanYieldsNewestVisible ==
    (scan.open /\ scan.done) =>
       LET out == scan.out
           state == txns[scan.h].state
       IN  /\ \A i \in DOMAIN out : \A j \in DOMAIN out :
                 i < j => BytesLess(out[i][1], out[j][1])
           /\ {out[i][1] : i \in DOMAIN out}
                 = {k \in KeysInScan : NewestVisiblePayload(store, state, k) # None}
           /\ \A i \in DOMAIN out :
                 Some(out[i][2]) = NewestVisiblePayload(store, state, out[i][1])

\* a finished scan of more entries than the buffer holds, by a transaction that
\* sees two versions of one key of the range and a tombstone of another
C10_Witness ==
    /\ scan.open /\ scan.done
    /\ Len(scan.out) > BUFFER_SIZE
    /\ \E k \in KeysInScan :
          /\ Cardinality({w \in RecordVersions(store, k) :
                            is_version_visible(txns[scan.h].state, w)}) >= 2
          /\ NewestVisiblePayload(store, txns[scan.h].state, k) # None
    /\ \E k \in KeysInScan :
          /\ RecordVersions(store, k) # {}
          /\ NewestVisiblePayload(store, txns[scan.h].state, k) = None

----------------------------------------------------------------------------
(* The relational layer: engine/local.rs on types/value.rs, types/schema.rs *)

\* Value::Null and Value::Integer(n)
ValueNull == [t |-> "Null", i |-> 0]
ValueInteger(n) == [t |-> "Integer", i |-> n]

\* Value's Ord: Null first, integers by number
ValueLess(a, b) == IF a.t = b.t THEN a.t = "Integer" /\ a.i < b.i ELSE a.t = "Null"

\* a Value in a key: the variant index, then the payload of the variant
ValueKey(v) == IF v.t = "Null" THEN <<0>> ELSE <<2>> \o serialize_i64(v.i)

\* a Value in a stored value: the variant index, then the payload in one cell
ValueEncode(v) == IF v.t = "Null" THEN <<0>> ELSE <<2, v.i>>

RECURSIVE ValuesEncode(_)
ValuesEncode(vs) ==
    IF vs = <<>> THEN <<>> ELSE ValueEncode(Head(vs)) \o ValuesEncode(Tail(vs))

RECURSIVE ValuesDecode(_, _)
ValuesDecode(bytes, n) ==
    IF n = 0 THEN <<>>
    ELSE IF bytes[1] = 0
         THEN <<ValueNull>> \o ValuesDecode(Tail(bytes), n - 1)
         ELSE <<ValueInteger(bytes[2])>> \o ValuesDecode(Tail(Tail(bytes)), n - 1)

\* Row::encode and Row::decode: the length, then the values
Row_encode(row) == <<Len(row)>> \o ValuesEncode(row)
Row_decode(bytes) == ValuesDecode(Tail(bytes), bytes[1])

\* the values of a BTreeSet<Value> in its order
RECURSIVE SortValues(_)
SortValues(S) ==
    IF S = {} THEN <<>>
    ELSE LET m == CHOOSE x \in S : \A y \in S \ {x} : ValueLess(x, y)
         IN  <<m>> \o SortValues(S \ {m})

\* BTreeSet::<Value>::encode and decode: the length, then the values in order
BTreeSet_encode(S) == <<Cardinality(S)>> \o ValuesEncode(SortValues(S))
BTreeSet_decode(bytes) == Range(ValuesDecode(Tail(bytes), bytes[1]))

\* schema::Column, every column of type INTEGER
Column(name, nullable, references, has_secondary_index) ==
    [name |-> name, data_type |-> "Integer", nullable |-> nullable,
     references |-> references, has_secondary_index |-> has_secondary_index]

\* the column names "id", "up" and "pid"
ColId == <<105, 100>>
ColUp == <<117, 112>>
ColPid == <<112, 105, 100>>

\* the schemas plan_create_table makes of
\*   CREATE TABLE p (id INTEGER NOT NULL, up INTEGER REFERENCES p)
\*   CREATE TABLE c (id INTEGER NOT NULL, pid INTEGER REFERENCES p)
\*   CREATE TABLE b (id INTEGER NOT NULL) PRIMARY KEY 1
TableP ==
    [name |-> <<112>>, primary_key_index |-> 0,
     columns |-> <<Column(ColId, FALSE, None, FALSE),
                   Column(ColUp, TRUE, Some(<<112>>), TRUE)>>]
TableC ==
    [name |-> <<99>>, primary_key_index |-> 0,
     columns |-> <<Column(ColId, FALSE, None, FALSE),
                   Column(ColPid, TRUE, Some(<<112>>), TRUE)>>]
TableB ==
    [name |-> <<98>>, primary_key_index |-> 1,
     columns |-> <<Column(ColId, FALSE, None, FALSE)>>]

Schemas == <<TableP, TableC, TableB>>
TableNames == {Schemas[n].name : n \in DOMAIN Schemas}

\* Table::encode and Table::decode, a schema abbreviated to its place in Schemas
Table_encode(table) == <<CHOOSE n \in DOMAIN Schemas : Schemas[n] = table>>
Table_decode(bytes) == Schemas[bytes[1]]

\* local::Key::Table, Key::Index and Key::Row encoded
LKeyTable(name) == <<0>> \o serialize_bytes(name)
LKeyIndex(table, column, value) ==
    <<1>> \o serialize_bytes(table) \o serialize_bytes(column) \o ValueKey(value)
LKeyRow(table, id) == <<2>> \o serialize_bytes(table) \o ValueKey(id)
\* local::KeyPrefix::Table, KeyPrefix::Index and KeyPrefix::Row encoded
LKeyPrefixTable == <<0>>
LKeyPrefixIndex(table, column) == <<1>> \o serialize_bytes(table) \o serialize_bytes(column)
LKeyPrefixRow(table) == <<2>> \o serialize_bytes(table)

\* the outcome of a call: Ok, or an error with the fields of ReferentialIntegrity
LRes(err, table, column, source_id) ==
    [err |-> err, table |-> table, column |-> column, source_id |-> source_id]
LErr(err) == LRes(err, <<>>, <<>>, ValueNull)
LOk == LErr("Ok")
\* the outcome of a write of the MVCC layer as an outcome of this layer
Lifted(w) == [store |-> w.store, res |-> LErr(w.res)]

\* MvccTransaction::scan_prefix collected
ScanPrefix(s, state, prefix) ==
    ScanCollect(s, MvccScanIteratorNew(state, MvccScanPrefixRange(prefix)))

\* Catalog::get_table
TableOf(v) == IF v = None THEN None ELSE Some(Table_decode(v[1]))
get_table(s, state, name) == TableOf(MvccGet(s, state, LKeyTable(name)))

\* Catalog::list_tables
DecodeTables(items) == [n \in DOMAIN items |-> Table_decode(items[n][2])]
list_tables(s, state) == DecodeTables(ScanPrefix(s, state, LKeyPrefixTable))

\* LocalTransaction::get_row
RowOf(v) == IF v = None THEN None ELSE Some(Row_decode(v[1]))
get_row(s, state, table, id) == RowOf(MvccGet(s, state, LKeyRow(table, id)))

\* LocalTransaction::get_index: a missing bucket is the empty set
BucketOf(v) == IF v = None THEN {} ELSE BTreeSet_decode(v[1])
get_index(s, state, table, column, value) ==
    BucketOf(MvccGet(s, state, LKeyIndex(table, column, value)))

\* LocalTransaction::set_index: an empty bucket is deleted
set_index(s, state, table, column, value, ids) ==
    write_version(s, state, LKeyIndex(table, column, value),
                  IF ids = {} THEN None ELSE Some(BTreeSet_encode(ids)))

\* Transaction::lookup_index
lookup_index(s, state, table, column, values) ==
    UNION {get_index(s, state, table, column, values[n]) : n \in DOMAIN values}

\* Transaction::get: the rows of the ids that have one
get(s, state, table, ids) ==
    {get_row(s, state, table, ids[n])[1] :
        n \in {m \in DOMAIN ids : get_row(s, state, table, ids[m]) # None}}

\* the columns of a table that reference the table named referenced, by index
RefColumns(table, referenced) ==
    SelectSeq([n \in DOMAIN table.columns |-> n - 1],
              LAMBDA i : /\ table.columns[i + 1].references # None
                         /\ table.columns[i + 1].references[1] = referenced)

\* LocalTransaction::table_refs, as (source, column index) pairs in its order
RECURSIVE RefPairs(_, _)
RefPairs(tables, referenced) ==
    IF tables = <<>> THEN <<>>
    ELSE [n \in DOMAIN RefColumns(Head(tables), referenced) |->
             [source |-> Head(tables), i |-> RefColumns(Head(tables), referenced)[n]]]
         \o RefPairs(Tail(tables), referenced)
table_refs(s, state, referenced) == RefPairs(list_tables(s, state), referenced)

\* the columns of a table that have a secondary index, by index
Indices(table) ==
    SelectSeq([n \in DOMAIN table.columns |-> n - 1],
              LAMBDA i : table.columns[i + 1].has_secondary_index)

\* Value::is_compatible and Table::validate_row
\* s.parse::<i64>() of the strings the rows are made with: string 0 is not the
\* text of a number, string n > 0 is the decimal text of n
parse_i64(s) == IF s = 0 THEN None ELSE Some(s)
is_compatible(value, data_type) ==
    \/ value.t = "Null"
    \/ (value.t = "Integer" /\ data_type = "Integer")
    \/ (value.t = "String" /\ data_type = "Integer" /\ parse_i64(value.i) # None)
validate_row(table, row) ==
    /\ Len(row) = Len(table.columns)
    /\ \A n \in DOMAIN table.columns : is_compatible(row[n], table.columns[n].data_type)

\* delete: the ids that column i of source holds for the ids being deleted
SourceIds(s, state, source, i, ids) ==
    IF i = source.primary_key_index
    THEN {row[i + 1] : row \in get(s, state, source.name, ids)}
    ELSE lookup_index(s, state, source.name, source.columns[i + 1].name, ids)

\* delete: a table that references itself does not count the rows being deleted
WithoutSelf(source_ids, self_reference, ids) ==
    IF self_reference THEN source_ids \ Range(ids) ELSE source_ids

\* delete: the loop over table_refs, ended by the first referencing id found
RECURSIVE ReferenceCheck(_, _, _, _, _)
ReferenceCheck(s, state, table, ids, pairs) ==
    IF pairs = <<>> THEN LOk
    ELSE LET source == Head(pairs).source
             source_ids == WithoutSelf(SourceIds(s, state, source, Head(pairs).i, ids),
                                       source.name = table.name, ids)
         IN  IF source_ids # {}
             THEN LRes("ReferentialIntegrity", source.name,
                       source.columns[source.primary_key_index + 1].name,
                       Head(SortValues(source_ids)))
             ELSE ReferenceCheck(s, state, table, ids, Tail(pairs))

\* delete: the loop over the indexed columns that takes id out of the buckets
\* of its row, ended by the first write that fails: [store, res]
RECURSIVE UnindexLoop(_, _, _, _, _, _)
UnindexNext(state, table, row, id, cols, w) ==
    IF w.res # "Ok" THEN Lifted(w)
    ELSE UnindexLoop(w.store, state, table, row, id, Tail(cols))
UnindexLoop(s, state, table, row, id, cols) ==
    IF cols = <<>> THEN [store |-> s, res |-> LOk]
    ELSE UnindexNext(state, table, row, id, cols,
             set_index(s, state, table.name, table.columns[Head(cols) + 1].name,
                       row[Head(cols) + 1],
                       get_index(s, state, table.name, table.columns[Head(cols) + 1].name,
                                 row[Head(cols) + 1]) \ {id}))

\* delete: the loop over the ids, ended by the first write that fails
RECURSIVE DeleteLoop(_, _, _, _)
DeleteRest(state, table, ids, w) ==
    IF w.res # "Ok" THEN Lifted(w) ELSE DeleteLoop(w.store, state, table, Tail(ids))
DeleteRow(state, table, ids, u) ==
    IF u.res.err # "Ok" THEN u
    ELSE DeleteRest(state, table, ids,
                    write_version(u.store, state, LKeyRow(table.name, Head(ids)), None))
DeleteLoop(s, state, table, ids) ==
    IF ids = <<>> THEN [store |-> s, res |-> LOk]
    ELSE DeleteRow(state, table, ids,
             IF Indices(table) # <<>> /\ get_row(s, state, table.name, Head(ids)) # None
             THEN UnindexLoop(s, state, table, get_row(s, state, table.name, Head(ids))[1],
                              Head(ids), Indices(table))
             ELSE [store |-> s, res |-> LOk])

\* Transaction::delete: [store, res]
DeleteChecked(s, state, table, ids, check) ==
    IF check.err # "Ok" THEN [store |-> s, res |-> check]
    ELSE DeleteLoop(s, state, table, ids)
DeleteOf(s, state, t, ids) ==
    IF t = None THEN [store |-> s, res |-> LErr("TableDoesNotExist")]
    ELSE DeleteChecked(s, state, t[1], ids,
             ReferenceCheck(s, state, t[1], ids, table_refs(s, state, t[1].name)))
delete(s, state, table, ids) == DeleteOf(s, state, get_table(s, state, table), ids)

\* insert: the loop over the indexed columns that puts id into the buckets of
\* its row, ended by the first write that fails: [store, res]
RECURSIVE IndexLoop(_, _, _, _, _, _)
IndexNext(state, table, row, id, cols, w) ==
    IF w.res # "Ok" THEN Lifted(w)
    ELSE IndexLoop(w.store, state, table, row, id, Tail(cols))
IndexLoop(s, state, table, row, id, cols) ==
    IF cols = <<>> THEN [store |-> s, res |-> LOk]
    ELSE IndexNext(state, table, row, id, cols,
             set_index(s, state, table.name, table.columns[Head(cols) + 1].name,
                       row[Head(cols) + 1],
                       get_index(s, state, table.name, table.columns[Head(cols) + 1].name,
                                 row[Head(cols) + 1]) \cup {id}))

\* insert: the loop over the rows; row[primary_key_index] panics when the
\* schema's primary_key_index is not the index of a column
RECURSIVE InsertLoop(_, _, _, _)
InsertRest(state, table, rows, x) ==
    IF x.res.err # "Ok" THEN x ELSE InsertLoop(x.store, state, table, Tail(rows))
InsertRow(state, table, rows, id, w) ==
    IF w.res # "Ok" THEN Lifted(w)
    ELSE InsertRest(state, table, rows,
                    IndexLoop(w.store, state, table, Head(rows), id, Indices(table)))
InsertLoop(s, state, table, rows) ==
    IF rows = <<>> THEN [store |-> s, res |-> LOk]
    ELSE IF ~validate_row(table, Head(rows)) THEN [store |-> s, res |-> LErr("InvalidRow")]
    ELSE IF table.primary_key_index >= Len(Head(rows))
         THEN [store |-> s, res |-> LErr("panic")]
    ELSE InsertRow(state, table, rows, Head(rows)[table.primary_key_index + 1],
             write_version(s, state,
                           LKeyRow(table.name, Head(rows)[table.primary_key_index + 1]),
                           Some(Row_encode(Head(rows)))))

\* Transaction::insert: [store, res]
InsertOf(s, state, t, rows) ==
    IF t = None THEN [store |-> s, res |-> LErr("TableDoesNotExist")]
    ELSE InsertLoop(s, state, t[1], rows)
insert(s, state, table, rows) == InsertOf(s, state, get_table(s, state, table), rows)

\* a create_table that writes the schema without looking for the table
create_table_NoCheck(s, state, table) ==
    Lifted(write_version(s, state, LKeyTable(table.name), Some(Table_encode(table))))
\* Catalog::create_table: [store, res]
create_table(s, state, table) ==
    IF MvccGet(s, state, LKeyTable(table.name)) # None
    THEN [store |-> s, res |-> LErr("TableAlreadyExists")]
    ELSE Lifted(write_version(s, state, LKeyTable(table.name), Some(Table_encode(table))))

\* Transaction::scan(table, None) collected: the rows the transaction sees
DecodeRows(items) == [n \in DOMAIN items |-> Row_decode(items[n][2])]
scan_rows(s, state, table) == DecodeRows(ScanPrefix(s, state, LKeyPrefixRow(table)))

----------------------------------------------------------------------------
(* SpecLocal: transactions of the relational layer (engine/local.rs) on one *)
(* store that holds the tables p and c; their calls interleave              *)

LRet(op, h, table, arg, res) ==
    [op |-> op, h |-> h, table |-> table, arg |-> arg, res |-> res]

\* the values, rows and id lists the calls are made with
LocalRows(table) ==
    IF table = TableB.name THEN {<<ValueInteger(1)>>}
    ELSE IF table = TableP.name
    THEN {<<ValueInteger(id), up>> : id \in {1, 2}, up \in {ValueNull, ValueInteger(1)}}
    ELSE {<<id, ValueInteger(pid)>> :
             id \in {ValueNull, ValueInteger(1), ValueInteger(2)}, pid \in {1, 2}}
LocalIdLists ==
    {<<ValueInteger(1)>>, <<ValueInteger(2)>>, <<ValueInteger(1), ValueInteger(2)>>}

\* CREATE TABLE p, CREATE TABLE c, INSERT INTO p VALUES (1, NULL), (2, NULL) and
\* INSERT INTO c VALUES (1, 1) in one committed transaction
SetupLocal ==
    LET b == MvccBegin(<<>>)
        p == create_table(b.store, b.state, TableP)
        c == create_table(p.store, b.state, TableC)
        rp == insert(c.store, b.state, TableP.name,
                     <<<<ValueInteger(1), ValueNull>>, <<ValueInteger(2), ValueNull>>>>)
        rc == insert(rp.store, b.state, TableC.name, <<<<ValueInteger(1), ValueInteger(1)>>>>)
    IN  [store |-> MvccCommit(rc.store, b.state),
         txns |-> <<[state |-> b.state, st |-> "committed"]>>]

InitLocal ==
    /\ store = SetupLocal.store
    /\ txns = SetupLocal.txns
    /\ ghost = <<>>
    /\ ret = Ret("new", 0, NoKey, "Ok", None)
    /\ nwrites = 0
    /\ IdleSess /\ IdleScan /\ IdleBitcask /\ IdleLocal /\ IdleServer /\ IdlePure

\* let h = local.begin()
LBegin ==
    /\ Len(txns) < MaxLocalVersion
    /\ LET b == MvccBegin(store)
       IN  /\ store' = b.store
           /\ txns' = Append(txns, [state |-> b.state, st |-> "active"])
    /\ lret' = LRet("begin", Len(txns) + 1, <<>>, <<>>, LOk)
    /\ UNCHANGED <<ghost, ret, nwrites, sessVars, scan, bitcaskVars, serverVars, pureVars>>

\* a call of transaction h that writes, with outcome r = [store, res]
LCall(op, h, table, arg, r) ==
    /\ store' = r.store
    /\ lret' = LRet(op, h, table, arg, r.res)
    /\ nwrites' = nwrites + 1
    /\ UNCHANGED <<txns, ghost, ret, sessVars, scan, bitcaskVars, serverVars, pureVars>>

\* h.insert(table, [row])
LInsert ==
    \E h \in Handles, table \in TableNames :
      \E row \in LocalRows(table) :
        /\ Active(h)
        /\ nwrites < MaxLocalOps
        /\ LCall("insert", h, table, <<row>>,
                 insert(store, txns[h].state, table, <<row>>))

\* h.delete(table, ids)
LDelete ==
    \E h \in Handles, table \in TableNames, ids \in LocalIdLists :
        /\ Active(h)
        /\ nwrites < MaxLocalOps
        /\ LCall("delete", h, table, ids, delete(store, txns[h].state, table, ids))

\* h.create_table(schema)
LCreate ==
    \E h \in Handles, n \in DOMAIN Schemas :
        /\ Active(h)
        /\ nwrites < MaxLocalOps
        /\ LCall("create_table", h, Schemas[n].name, <<>>,
                 create_table(store, txns[h].state, Schemas[n]))

\* h.commit()
LCommit ==
    \E h \in Handles :
        /\ Active(h)
        /\ store' = MvccCommit(store, txns[h].state)
        /\ txns' = [txns EXCEPT ![h].st = "committed"]
        /\ lret' = LRet("commit", h, <<>>, <<>>, LOk)
        /\ UNCHANGED <<ghost, ret, nwrites, sessVars, scan, bitcaskVars, serverVars, pureVars>>

\* h.rollback()
LRollback ==
    \E h \in Handles :
        /\ Active(h)
        /\ store' = MvccRollback(store, txns[h].state)
        /\ txns' = [txns EXCEPT ![h].st = "rolledback"]
        /\ lret' = LRet("rollback", h, <<>>, <<>>, LOk)
        /\ UNCHANGED <<ghost, ret, nwrites, sessVars, scan, bitcaskVars, serverVars, pureVars>>

NextLocal == LBegin \/ LInsert \/ LDelete \/ LCreate \/ LCommit \/ LRollback

SpecLocal == InitLocal /\ [][NextLocal]_vars

\* the step is a call op of the relational layer
IsLocalCall(op) == nwrites' = nwrites + 1 /\ lret'.op = op

\* the rows of source the transaction sees that hold one of ids in a column that
\* references table, the rows being deleted themselves left out
ReferencingRows(s, state, source, table, ids) ==
    {row \in Range(scan_rows(s, state, source.name)) :
        /\ \E n \in DOMAIN source.columns :
              /\ source.columns[n].references = Some(table)
              /\ row[n] \in Range(ids)
        /\ ~(source.name = table /\ row[source.primary_key_index + 1] \in Range(ids))}

\* the error names source, its primary-key column and the key of one of rows
NamesOneOf(res, source, rows) ==
    /\ res.table = source.name
    /\ res.column = source.columns[source.primary_key_index + 1].name
    /\ \E row \in rows : res.source_id = row[source.primary_key_index + 1]

\* C11: a delete(table, ids) of an existing table fails with ReferentialIntegrity
\* whenever a row the transaction sees, in any table and other than the rows
\* being deleted, holds one of ids in a column that references the table, and
\* the error names the referencing table, its primary-key column and the
\* primary key of such a referencing row.
C11_ReferentialIntegrity ==
    [][(IsLocalCall("delete") /\ get_table(store, txns[lret'.h].state, lret'.table) # None) =>
          LET state == txns[lret'.h].state
              sources == {source \in Range(list_tables(store, state)) :
                             ReferencingRows(store, state, source,
                                             lret'.table, lret'.arg) # {}}
          IN  sources # {} =>
                 /\ lret'.res.err = "ReferentialIntegrity"
                 /\ \E source \in sources :
                       NamesOneOf(lret'.res, source,
                                  ReferencingRows(store, state, source,
                                                  lret'.table, lret'.arg))]_vars

\* the values a bucket of an index can be kept under
BucketValues == {ValueNull, ValueInteger(1), ValueInteger(2)}

\* what a transaction sees of the rows and index buckets of every table
ViewOfTables(s, state) ==
    [n \in DOMAIN Schemas |->
        [rows |-> scan_rows(s, state, Schemas[n].name),
         index |-> [c \in DOMAIN Schemas[n].columns |->
                      [v \in BucketValues |->
                          get_index(s, state, Schemas[n].name,
                                    Schemas[n].columns[c].name, v)]]]]

\* C12: when delete(table, ids) returns an error, the transaction that ran it
\* sees the same rows and the same secondary-index buckets as before the call.
C12_DeleteAllOrNothing ==
    [][(IsLocalCall("delete") /\ lret'.res.err # "Ok") =>
          ViewOfTables(store', txns[lret'.h].state) =
              ViewOfTables(store, txns[lret'.h].state)]_vars

\* the primary keys of the rows, one for each row
PrimaryKeys(table, rows) == [n \in DOMAIN rows |-> rows[n][table.primary_key_index + 1]]

\* the invariant of a table for the rows a transaction sees of it
TableInvariant(table, rows) ==
    /\ table.primary_key_index < Len(table.columns)
    /\ \A n \in DOMAIN rows : PrimaryKeys(table, rows)[n] # ValueNull
    /\ \A n, m \in DOMAIN rows :
          PrimaryKeys(table, rows)[n] = PrimaryKeys(table, rows)[m] => n = m

\* C19: every table schema an open transaction sees has primary_key_index <
\* columns.len(), and every row it sees of the table has a primary key that is
\* not Null and that no other row of the table has.
C19_TableInvariant ==
    \A h \in Handles :
        Active(h) =>
            \A table \in Range(list_tables(store, txns[h].state)) :
                TableInvariant(table, scan_rows(store, txns[h].state, table.name))

----------------------------------------------------------------------------
(* Catalog::drop_table *)

\* drop_table: the loop that deletes the row keys collected before it
RECURSIVE DropRows(_, _, _)
DropRowsNext(state, keys, w) ==
    IF w.res # "Ok" THEN Lifted(w) ELSE DropRows(w.store, state, Tail(keys))
DropRows(s, state, keys) ==
    IF keys = <<>> THEN [store |-> s, res |-> LOk]
    ELSE DropRowsNext(state, keys, write_version(s, state, Head(keys), None))

\* drop_table: while let Some(key) = keys.next() { delete(key) } on the index
\* keys of one column; the iterator reads the store as it is when it fills
RECURSIVE DropIndexWhile(_, _, _)
DropIndexDelete(state, n, w) ==
    IF w.res # "Ok" THEN Lifted(w) ELSE DropIndexWhile(w.store, state, n.it)
DropIndexItem(s, state, n) ==
    IF n.item = None THEN [store |-> s, res |-> LOk]
    ELSE DropIndexDelete(state, n, write_version(s, state, n.item[1][1], None))
DropIndexWhile(s, state, it) == DropIndexItem(s, state, MvccScanNext(s, it))

\* drop_table: the loop over the columns that have a secondary index
RECURSIVE DropIndices(_, _, _, _)
DropIndicesNext(state, table, cols, r) ==
    IF r.res.err # "Ok" THEN r ELSE DropIndices(r.store, state, table, Tail(cols))
DropIndices(s, state, table, cols) ==
    IF cols = <<>> THEN [store |-> s, res |-> LOk]
    ELSE DropIndicesNext(state, table, cols,
             DropIndexWhile(s, state,
                 MvccScanIteratorNew(state,
                     MvccScanPrefixRange(
                         LKeyPrefixIndex(table.name, table.columns[Head(cols) + 1].name)))))

\* the keys of scanned items
ItemKeys(items) == [n \in DOMAIN items |-> items[n][1]]

\* Catalog::drop_table: [store, res]
DropIndexed(state, table, r) ==
    IF r.res.err # "Ok" THEN r ELSE DropIndices(r.store, state, table, Indices(table))
DropSchema(state, table, w) ==
    IF w.res # "Ok" THEN Lifted(w)
    ELSE DropIndexed(state, table,
             DropRows(w.store, state,
                      ItemKeys(ScanPrefix(w.store, state, LKeyPrefixRow(table.name)))))
DropOf(s, state, t) ==
    IF t = None THEN [store |-> s, res |-> LErr("TableDoesNotExist")]
    ELSE DropSchema(state, t[1], write_version(s, state, LKeyTable(t[1].name), None))
drop_table(s, state, table) == DropOf(s, state, get_table(s, state, table))

----------------------------------------------------------------------------
(* SpecDrop: drop_table on a store where table c is filled row by row, each *)
(* row with an index bucket of its own                                      *)

\* the rows (n, n) for n = from .. to
RowsFromTo(from, to) ==
    [n \in 1..(to - from + 1) |-> <<ValueInteger(from + n - 1), ValueInteger(from + n - 1)>>]

\* the numbers of rows of one INSERT statement
LoadSizes == {1, 2}

\* INSERT INTO c VALUES (n, n), ... in its own transaction, for the next size
\* row numbers; nwrites is the number of rows inserted so far
DLoad ==
    \E size \in LoadSizes :
        /\ nwrites + size <= MaxDropRows
        /\ ghost.loads < MaxDropLoads
        /\ LET b == MvccBegin(store)
               r == insert(b.store, b.state, TableC.name,
                           RowsFromTo(nwrites + 1, nwrites + size))
           IN  /\ store' = IF r.res.err = "Ok" THEN MvccCommit(r.store, b.state)
                           ELSE MvccRollback(r.store, b.state)
               /\ lret' = LRet("load", 0, TableC.name, <<ValueInteger(size)>>, r.res)
        /\ nwrites' = nwrites + size
        /\ ghost' = [ghost EXCEPT !.loads = @ + 1]
        /\ UNCHANGED <<txns, ret, sessVars, scan, bitcaskVars, serverVars, pureVars>>

\* let h = local.begin(); ghost.dropped[h] is the set of tables h has dropped
DBegin ==
    /\ Len(txns) < MaxDropVersion
    /\ LET b == MvccBegin(store)
       IN  /\ store' = b.store
           /\ txns' = Append(txns, [state |-> b.state, st |-> "active"])
    /\ ghost' = [ghost EXCEPT !.dropped = Append(@, {})]
    /\ lret' = LRet("begin", Len(txns) + 1, <<>>, <<>>, LOk)
    /\ UNCHANGED <<ret, nwrites, sessVars, scan, bitcaskVars, serverVars, pureVars>>

\* h.drop_table(table)
DDrop ==
    \E h \in Handles, table \in TableNames :
        /\ Active(h)
        /\ LET r == drop_table(store, txns[h].state, table)
           IN  /\ store' = r.store
               /\ lret' = LRet("drop_table", h, table, <<>>, r.res)
               /\ ghost' = IF r.res.err = "Ok"
                           THEN [ghost EXCEPT !.dropped[h] = @ \cup {table}] ELSE ghost
        /\ UNCHANGED <<txns, ret, nwrites, sessVars, scan, bitcaskVars, serverVars, pureVars>>

\* h.commit()
DCommit ==
    \E h \in Handles :
        /\ Active(h)
        /\ store' = MvccCommit(store, txns[h].state)
        /\ txns' = [txns EXCEPT ![h].st = "committed"]
        /\ lret' = LRet("commit", h, <<>>, <<>>, LOk)
        /\ UNCHANGED <<ghost, ret, nwrites, sessVars, scan, bitcaskVars, serverVars, pureVars>>

\* h.rollback()
DRollback ==
    \E h \in Handles :
        /\ Active(h)
        /\ store' = MvccRollback(store, txns[h].state)
        /\ txns' = [txns EXCEPT ![h].st = "rolledback"]
        /\ lret' = LRet("rollback", h, <<>>, <<>>, LOk)
        /\ UNCHANGED <<ghost, ret, nwrites, sessVars, scan, bitcaskVars, serverVars, pureVars>>

InitDrop ==
    /\ store = SetupLocal.store
    /\ txns = SetupLocal.txns
    /\ ghost = [dropped |-> <<{}>>, loads |-> 0]
    /\ ret = Ret("new", 0, NoKey, "Ok", None)
    /\ nwrites = 1
    /\ IdleSess /\ IdleScan /\ IdleBitcask /\ IdleLocal /\ IdleServer /\ IdlePure

NextDrop == DLoad \/ DBegin \/ DDrop \/ DCommit \/ DRollback

SpecDrop == InitDrop /\ [][NextDrop]_vars

\* table is gone for the transaction: no schema, not listed, no row scanned and
\* no bucket left under any column of its schema t that has an index
TableGone(s, state, t) ==
    /\ get_table(s, state, t.name) = None
    /\ \A n \in DOMAIN list_tables(s, state) : list_tables(s, state)[n].name # t.name
    /\ scan_rows(s, state, t.name) = <<>>
    /\ \A n \in DOMAIN t.columns :
          t.columns[n].has_secondary_index =>
              ScanPrefix(s, state, LKeyPrefixIndex(t.name, t.columns[n].name)) = <<>>

\* the schema with the given name
SchemaOf(name) == Schemas[CHOOSE n \in DOMAIN Schemas : Schemas[n].name = name]

\* C20: drop_table(name) fails with TableDoesNotExist and writes nothing when
\* the transaction sees no such table; when it succeeds the table is gone for
\* the transaction right afterwards (no schema, not listed, no row, no bucket
\* of an indexed column), and once the transaction has committed the table is
\* gone for a transaction that begins then, whatever the number of rows.
C20_DropTable ==
    [][/\ (lret'.op = "drop_table" /\ lret' # lret) =>
             LET state == txns[lret'.h].state
             IN  IF get_table(store, state, lret'.table) = None
                 THEN lret'.res.err = "TableDoesNotExist" /\ store' = store
                 ELSE lret'.res.err = "Ok" =>
                         TableGone(store', state, SchemaOf(lret'.table))
       /\ \A h \in Handles :
             (txns[h].st = "active" /\ txns'[h].st = "committed") =>
                 \A name \in ghost.dropped[h] :
                     TableGone(MvccBegin(store').store, MvccBegin(store').state,
                               SchemaOf(name))]_vars

----------------------------------------------------------------------------
(* Session::exec as a function: exec/session.rs.  A world w is the store,   *)
(* the transactions begun so far and each session's current_transaction (0  *)
(* for None); a transaction records the session that began it and whether   *)
(* BEGIN began it.                                                          *)

World(s, t, c) == [store |-> s, txns |-> t, cur |-> c]
Stmt(op, id, x) == [op |-> op, id |-> id, x |-> x]
\* the outcome of Session::exec: the world afterwards and Ok(val) or Err(val)
XRes(w, ok, val) == [w |-> w, res |-> [ok |-> ok, val |-> val]]
NewTxn(state, st, c, explicit) ==
    [state |-> state, st |-> st, owner |-> c, explicit |-> explicit]

\* Session::begin, once engine.begin() returned b
Began(w, c, b) ==
    XRes(World(b.store, Append(w.txns, NewTxn(b.state, "active", c, TRUE)),
               [w.cur EXCEPT ![c] = Len(w.txns) + 1]),
         TRUE, "Begin")
\* a begin that does not look at current_transaction
SessionBegin_NoCheck(w, c) == Began(w, c, MvccBegin(w.store))
\* Session::begin
SessionBegin(w, c) ==
    IF w.cur[c] # 0 THEN XRes(w, FALSE, "AlreadyInTransaction")
    ELSE Began(w, c, MvccBegin(w.store))

\* Session::commit
SessionCommit(w, c) ==
    IF w.cur[c] = 0 THEN XRes(w, FALSE, "NotInTransaction")
    ELSE XRes(World(MvccCommit(w.store, w.txns[w.cur[c]].state),
                    [w.txns EXCEPT ![w.cur[c]].st = "committed"],
                    [w.cur EXCEPT ![c] = 0]),
              TRUE, "Commit")

\* Session::rollback
SessionRollback(w, c) ==
    IF w.cur[c] = 0 THEN XRes(w, FALSE, "NotInTransaction")
    ELSE XRes(World(MvccRollback(w.store, w.txns[w.cur[c]].state),
                    [w.txns EXCEPT ![w.cur[c]].st = "rolledback"],
                    [w.cur EXCEPT ![c] = 0]),
              TRUE, "Rollback")

\* the table name "u": no statement creates it
TableU == <<117>>

\* Planner::plan(statement)?.execute(t) for INSERT INTO t, DELETE FROM t and
\* INSERT INTO u: [store, res]
ExecStatement(stmt, s, state) ==
    IF stmt.op = "insert" THEN TxnInsert(s, state, stmt.id, stmt.x)
    ELSE IF stmt.op = "delete" THEN TxnDelete(s, state, stmt.id)
    ELSE IF MvccGet(s, state, LKeyTable(TableU)) = None
         THEN [store |-> s, res |-> "TableDoesNotExist"]
         ELSE [store |-> s, res |-> "Ok"]

\* the StatementResult of a statement that succeeded
Affected(stmt) == IF stmt.op = "delete" THEN "Delete" ELSE "Insert"
ResultOf(stmt, r) == IF r.res = "Ok" THEN Affected(stmt) ELSE r.res

\* with_transaction when the session holds a transaction: return f(txn)
Explicit(w, stmt, r) ==
    XRes(World(r.store, w.txns, w.cur), r.res = "Ok", ResultOf(stmt, r))

\* with_transaction otherwise, an implicit transaction that keeps its marker
\* when f fails
Implicit_NoRollback(w, c, stmt, b, r) ==
    XRes(World(IF r.res = "Ok" THEN MvccCommit(r.store, b.state) ELSE r.store,
               Append(w.txns, NewTxn(b.state, IF r.res = "Ok" THEN "committed"
                                               ELSE "rolledback", c, FALSE)),
               w.cur),
         r.res = "Ok", ResultOf(stmt, r))
\* with_transaction otherwise: begin, f, commit on Ok and rollback on Err
Implicit(w, c, stmt, b, r) ==
    XRes(World(IF r.res = "Ok" THEN MvccCommit(r.store, b.state)
               ELSE MvccRollback(r.store, b.state),
               Append(w.txns, NewTxn(b.state, IF r.res = "Ok" THEN "committed"
                                               ELSE "rolledback", c, FALSE)),
               w.cur),
         r.res = "Ok", ResultOf(stmt, r))
Begun(w, c, stmt, b) == Implicit(w, c, stmt, b, ExecStatement(stmt, b.store, b.state))

\* Session::with_transaction
with_transaction(w, c, stmt) ==
    IF w.cur[c] # 0
    THEN Explicit(w, stmt, ExecStatement(stmt, w.store, w.txns[w.cur[c]].state))
    ELSE Begun(w, c, stmt, MvccBegin(w.store))

\* Session::exec
session_exec(w, c, stmt) ==
    IF stmt.op = "begin" THEN SessionBegin(w, c)
    ELSE IF stmt.op = "commit" THEN SessionCommit(w, c)
    ELSE IF stmt.op = "rollback" THEN SessionRollback(w, c)
    ELSE with_transaction(w, c, stmt)

\* the statements the sessions are given
Stmts ==
    {Stmt("begin", 0, 0), Stmt("commit", 0, 0), Stmt("rollback", 0, 0),
     Stmt("insert", 1, 8), Stmt("delete", 1, 0), Stmt("insert_u", 1, 8)}

\* the transactions of SetupStore (CREATE TABLE t and INSERT of row 1), as the
\* sessions' engine has them when the sessions are made
SetupTxns ==
    [n \in 1..2 |-> NewTxn(SetupStore.txns[n].state, "committed", "setup", FALSE)]

----------------------------------------------------------------------------
(* SpecExec: sessions on one engine whose owner calls Session::exec         *)

InitExec ==
    /\ store = SetupStore.store
    /\ txns = SetupTxns
    /\ cur = [c \in Sessions |-> 0]
    /\ ghost = <<>>
    /\ ret = Ret("new", 0, NoKey, "Ok", None)
    /\ nwrites = 0
    /\ sret = [op |-> "new", c |-> "A", res |-> "Ok"]
    /\ s3 = 0
    /\ IdleScan /\ IdleBitcask /\ IdleLocal /\ IdleServer /\ IdlePure

\* session c's exec(stmt) returns r; resp records the call
Executed(c, stmt, r) ==
    /\ Len(r.w.txns) <= MaxExecVersion
    /\ store' = r.w.store
    /\ txns' = r.w.txns
    /\ cur' = r.w.cur
    /\ resp' = [c |-> c, results |-> <<<<stmt, r.res>>>>]
    /\ UNCHANGED <<ghost, ret, nwrites, sret, s3, scan, bitcaskVars, localVars, pureVars,
                   serving, conn, inbox, mid>>

\* session.exec(BEGIN), session.exec(COMMIT), session.exec(ROLLBACK)
XControl ==
    \E c \in Sessions, stmt \in Stmts :
        /\ stmt.op \in {"begin", "commit", "rollback"}
        /\ Executed(c, stmt, session_exec(World(store, txns, cur), c, stmt))

\* session.exec of any other statement
XStatement ==
    \E c \in Sessions, stmt \in Stmts :
        /\ stmt.op \notin {"begin", "commit", "rollback"}
        /\ Executed(c, stmt, session_exec(World(store, txns, cur), c, stmt))

NextExec == XControl \/ XStatement

SpecExec == InitExec /\ [][NextExec]_vars

\* the step is session c's exec of a statement with operation op
IsExec(c, op) ==
    /\ resp'.c = c
    /\ Len(resp'.results) = 1
    /\ resp'.results[1][1].op = op
    /\ <<store, txns, cur, resp>>' # <<store, txns, cur, resp>>
\* the result of the call of the step
ExecRes == resp'.results[1][2]

\* the explicit transactions of session c that are neither committed nor rolled back
OpenExplicit(c) ==
    {h \in Handles : txns[h].owner = c /\ txns[h].explicit /\ txns[h].st = "active"}

\* the step leaves the store, the transactions and the sessions as they are
WorldUnchanged == store' = store /\ txns' = txns /\ cur' = cur

\* C13: a session holds at most one explicit transaction: exec(BEGIN) while one
\* is open fails with AlreadyInTransaction and changes nothing, exec(COMMIT)
\* and exec(ROLLBACK) with none open fail with NotInTransaction and change
\* nothing, after a successful COMMIT or ROLLBACK the session holds no
\* transaction, and the open explicit transactions of a session are at most
\* its current one.
C13_OneExplicitTransaction ==
    [][\A c \in Sessions :
          /\ (IsExec(c, "begin") /\ cur[c] # 0) =>
                /\ ExecRes = [ok |-> FALSE, val |-> "AlreadyInTransaction"]
                /\ WorldUnchanged
          /\ ((IsExec(c, "commit") \/ IsExec(c, "rollback")) /\ cur[c] = 0) =>
                /\ ExecRes = [ok |-> FALSE, val |-> "NotInTransaction"]
                /\ WorldUnchanged
          /\ ((IsExec(c, "commit") \/ IsExec(c, "rollback")) /\ ExecRes.ok) =>
                /\ cur'[c] = 0
                /\ txns'[cur[c]].st = IF IsExec(c, "commit") THEN "committed"
                                      ELSE "rolledback"
          /\ OpenExplicit(c)' = {cur'[c]} \ {0}]_vars

\* a BEGIN of a session that holds an active transaction has just failed
C13_Witness ==
    /\ Len(resp.results) = 1
    /\ resp.results[1][1].op = "begin"
    /\ resp.results[1][2] = [ok |-> FALSE, val |-> "AlreadyInTransaction"]
    /\ cur[resp.c] # 0
    /\ txns[cur[resp.c]].st = "active"
    /\ \E c \in Sessions : c # resp.c /\ cur[c] = 0 /\ \E h \in Handles :
          txns[h].owner = c /\ txns[h].explicit /\ txns[h].st = "committed"

\* C14: a statement other than BEGIN, COMMIT and ROLLBACK that a session
\* executes while it holds no transaction runs in a transaction of its own,
\* committed when the statement succeeds and rolled back when it fails;
\* afterwards the session holds no transaction, no ActiveTransaction marker of
\* that transaction is in the store, a failed statement has left no record of
\* it and a successful one is visible to a transaction that begins then.
C14_ImplicitTransactions ==
    [][\A c \in Sessions : \A stmt \in Stmts :
          (/\ stmt.op \notin {"begin", "commit", "rollback"}
           /\ IsExec(c, stmt.op)
           /\ cur[c] = 0) =>
              LET n == txns'[Len(txns')]
              IN  /\ cur'[c] = 0
                  /\ Len(txns') = Len(txns) + 1
                  /\ n.owner = c /\ ~n.explicit
                  /\ n.st = IF ExecRes.ok THEN "committed" ELSE "rolledback"
                  /\ KeysOf(store', {1, 3}, n.state.version) = {}
                  /\ ~ExecRes.ok =>
                        /\ KeysOf(store', {4}, n.state.version) = {}
                        /\ FreshGet(store', RowKey(1)) = FreshGet(store, RowKey(1))
                  /\ (ExecRes.ok /\ stmt.op = "insert") =>
                        FreshGet(store', RowKey(stmt.id)) = Some(RowEncode(stmt.id, stmt.x))
                  /\ (ExecRes.ok /\ stmt.op = "delete") =>
                        FreshGet(store', RowKey(stmt.id)) = None]_vars

\* an INSERT in an implicit transaction has just failed on a conflict with
\* the open transaction of another session and has been rolled back
C14_Witness ==
    /\ Len(resp.results) = 1
    /\ resp.results[1][1].op = "insert"
    /\ resp.results[1][2] = [ok |-> FALSE, val |-> "OutOfOrder"]
    /\ cur[resp.c] = 0
    /\ txns[Len(txns)].st = "rolledback" /\ ~txns[Len(txns)].explicit
    /\ txns[Len(txns)].owner = resp.c
    /\ \E c \in Sessions : c # resp.c /\ cur[c] # 0

----------------------------------------------------------------------------
(* Server::process_request for Request::Execute: veris-server/src/server.rs *)

\* the loop ended by a statement that failed with r: session.rollback(), then
\* the results with the error last; held is what the session held when exec
\* returned, failed the number of the statement
Failed_NoRollback(c, batch, i, results, r) ==
    [w |-> r.w, results |-> Append(results, <<batch[i], r.res>>),
     held |-> r.w.cur[c], failed |-> i]
Failed(c, batch, i, results, r) ==
    [w |-> SessionRollback(r.w, c).w, results |-> Append(results, <<batch[i], r.res>>),
     held |-> r.w.cur[c], failed |-> i]

\* the for loop of process_request from statement i on
RECURSIVE RunBatch(_, _, _, _, _)
\* a loop that goes on with the next statement after one has failed
RunNext_Continue(c, batch, i, results, r) ==
    RunBatch(IF r.res.ok THEN r.w ELSE SessionRollback(r.w, c).w, c, batch, i + 1,
             Append(results, <<batch[i], r.res>>))
RunNext(c, batch, i, results, r) ==
    IF r.res.ok
    THEN RunBatch(r.w, c, batch, i + 1, Append(results, <<batch[i], r.res>>))
    ELSE Failed(c, batch, i, results, r)
RunBatch(w, c, batch, i, results) ==
    IF i > Len(batch) THEN [w |-> w, results |-> results, held |-> 0, failed |-> 0]
    ELSE RunNext(c, batch, i, results, session_exec(w, c, batch[i]))

\* Server::process_request(session, Request::Execute(sql)), sql parsed to batch
process_request(w, c, batch) == RunBatch(w, c, batch, 1, <<>>)

----------------------------------------------------------------------------
(* SpecServer: the server and its clients.  A client connects, sends        *)
(* requests on its connection, each a batch of statements, and hangs up;    *)
(* the server accepts a connection and serves it until the client hangs up  *)

\* the batches of the requests
Batches ==
    {<<a>> : a \in Stmts} \cup {<<a, b>> : a \in Stmts, b \in Stmts}
    \cup {<<Stmt("begin", 0, 0), a, b>> : a \in Stmts, b \in Stmts}

InitServer ==
    /\ store = SetupStore.store
    /\ txns = SetupTxns
    /\ cur = [c \in Sessions |-> 0]
    /\ ghost = <<>>
    /\ ret = Ret("new", 0, NoKey, "Ok", None)
    /\ nwrites = 0
    /\ sret = [op |-> "new", c |-> "A", res |-> "Ok"]
    /\ s3 = 0
    /\ IdleScan /\ IdleBitcask /\ IdleLocal /\ IdleServer /\ IdlePure

\* a client connects: the connection waits for listener.accept()
Connect(c) ==
    /\ conn[c] = "closed"
    /\ conn' = [conn EXCEPT ![c] = "waiting"]
    /\ UNCHANGED <<mvccVars, sessVars, scan, bitcaskVars, localVars, pureVars,
                   serving, inbox, resp, mid>>

\* sql_accept: listener.accept() returns a connection and sql_session starts
\* on it with Session::new; the loop accepts again only when sql_session ends
Accept(c) ==
    /\ serving = "none"
    /\ conn[c] = "waiting"
    /\ serving' = c
    /\ conn' = [conn EXCEPT ![c] = "open"]
    /\ UNCHANGED <<mvccVars, sessVars, scan, bitcaskVars, localVars, pureVars, inbox, resp, mid>>

\* a client writes a request line on its connection
Send(c, batch) ==
    /\ conn[c] \in {"waiting", "open"}
    /\ inbox[c] = <<>>
    /\ nwrites < MaxRequests
    /\ inbox' = [inbox EXCEPT ![c] = <<batch>>]
    /\ nwrites' = nwrites + 1
    /\ UNCHANGED <<store, txns, ghost, ret, sessVars, scan, bitcaskVars, localVars, pureVars,
                   serving, conn, resp, mid>>

\* sql_session: the next line of the connection being served is read,
\* process_request runs it and the response is written
Process(c) ==
    /\ serving = c
    /\ inbox[c] # <<>>
    /\ LET r == process_request(World(store, txns, cur), c, Head(inbox[c]))
       IN  /\ Len(r.w.txns) <= MaxServerVersion
           /\ store' = r.w.store
           /\ txns' = r.w.txns
           /\ cur' = r.w.cur
           /\ resp' = [c |-> c, results |-> r.results]
           /\ mid' = [c |-> c, batch |-> Head(inbox[c]), held |-> r.held,
                      failed |-> r.failed]
    /\ inbox' = [inbox EXCEPT ![c] = Tail(@)]
    /\ UNCHANGED <<ghost, ret, nwrites, sret, s3, scan, bitcaskVars, localVars, pureVars,
                   serving, conn>>

\* the client of the connection being served hangs up: lines.next_line()
\* returns None, sql_session returns and its Session is dropped with the
\* transaction it holds
Hangup(c) ==
    /\ serving = c
    /\ inbox[c] = <<>>
    /\ serving' = "none"
    /\ conn' = [conn EXCEPT ![c] = "closed"]
    /\ txns' = IF cur[c] = 0 THEN txns ELSE [txns EXCEPT ![cur[c]].st = "dropped"]
    /\ cur' = [cur EXCEPT ![c] = 0]
    /\ UNCHANGED <<store, ghost, ret, nwrites, sret, s3, scan, bitcaskVars, localVars, pureVars,
                   inbox, resp, mid>>

SvConnect == \E c \in Sessions : Connect(c)
SvAccept == \E c \in Sessions : Accept(c)
SvSend == \E c \in Sessions, batch \in Batches : Send(c, batch)
SvProcess == \E c \in Sessions : Process(c)
SvHangup == \E c \in Sessions : Hangup(c)

NextServer == SvConnect \/ SvAccept \/ SvSend \/ SvProcess \/ SvHangup

SpecServer == InitServer /\ [][NextServer]_vars

\* the step is the processing of a request of connection c
IsProcess(c) == serving = c /\ inbox[c] # <<>> /\ inbox'[c] = Tail(inbox[c])

\* the step answers a request in which a statement other than BEGIN, COMMIT
\* and ROLLBACK failed while session c held the explicit transaction mid'.held
FailedInExplicit(c) ==
    /\ IsProcess(c)
    /\ mid'.failed # 0
    /\ mid'.held # 0
    /\ mid'.batch[mid'.failed].op \notin {"begin", "commit", "rollback"}

\* C15 as stated: when a statement fails inside an explicit transaction, the
\* transaction is still the session's current one and still active once the
\* request is answered, so that a ROLLBACK of the client succeeds.
C15_AsStated ==
    [][\A c \in Sessions :
          FailedInExplicit(c) =>
              /\ cur'[c] = mid'.held
              /\ txns'[mid'.held].st = "active"
              /\ session_exec(World(store', txns', cur'), c,
                              Stmt("rollback", 0, 0)).res.ok]_vars

\* C15: when a statement fails inside an explicit transaction, Session::exec
\* returns with the transaction still held, and process_request rolls it back
\* before it answers: the response ends with the error, the transaction is
\* rolled back with no marker and no Version record of it left, the session
\* holds no transaction, and a ROLLBACK of the client then fails with
\* NotInTransaction.
C15_FailureRollsBack ==
    [][\A c \in Sessions :
          FailedInExplicit(c) =>
              /\ ~resp'.results[Len(resp'.results)][2].ok
              /\ cur'[c] = 0
              /\ txns'[mid'.held].st = "rolledback"
              /\ KeysOf(store', {1, 3, 4}, txns'[mid'.held].state.version) = {}
              /\ session_exec(World(store', txns', cur'), c,
                              Stmt("rollback", 0, 0)).res =
                     [ok |-> FALSE, val |-> "NotInTransaction"]]_vars

\* a request BEGIN, INSERT INTO t, INSERT INTO u has just been answered: the
\* second insert failed in the transaction that had inserted row 1
C15_Witness ==
    /\ mid.c \in Sessions
    /\ mid.batch = <<Stmt("begin", 0, 0), Stmt("insert", 1, 8), Stmt("insert_u", 1, 8)>>
    /\ mid.failed = 3
    /\ mid.held # 0
    /\ txns[mid.held].st = "rolledback"
    /\ cur[mid.c] = 0

\* C16: when a statement of an Execute batch fails, the session rolls back,
\* no later statement is executed, and the response holds one (statement,
\* result) entry for each statement that ran, in the order of the batch, the
\* last one the failing statement with its error; when none fails the
\* response holds an entry for every statement.
C16_BatchStopsAtFailure ==
    [][\A c \in Sessions :
          IsProcess(c) =>
              LET batch == Head(inbox[c])
                  results == resp'.results
                  n == Len(results)
              IN  /\ n >= 1 /\ n <= Len(batch)
                  /\ \A i \in 1..n : results[i][1] = batch[i]
                  /\ \A i \in 1..(n - 1) : results[i][2].ok
                  /\ results[n][2].ok => n = Len(batch)
                  /\ ~results[n][2].ok =>
                        /\ cur'[c] = 0
                        /\ mid'.held # 0 => txns'[mid'.held].st = "rolledback"
                        /\ Len(txns') - Len(txns) <= n
                        /\ process_request(World(store, txns, cur), c,
                                           SubSeq(batch, 1, n)).w
                               = World(store', txns', cur')]_vars

\* a request of three statements has just been answered with two entries: the
\* second statement failed and the third, an INSERT, was not executed
C16_Witness ==
    /\ mid.c \in Sessions
    /\ Len(mid.batch) = 3
    /\ mid.batch[3].op = "insert"
    /\ mid.failed = 2
    /\ Len(resp.results) = 2
    /\ ~resp.results[2][2].ok
    /\ FreshGet(store, RowKey(1)) = Some(RowEncode(1, 7))

\* C18: while one client connection is open, a request sent on a second
\* connection can be taken up by the server: it can accept the connection or
\* process the request.
C18_ConcurrentConnections ==
    \A c \in Sessions :
        (/\ conn[c] # "closed"
         /\ inbox[c] # <<>>
         /\ \E d \in Sessions \ {c} : conn[d] = "open") =>
            ENABLED (Accept(c) \/ Process(c))

----------------------------------------------------------------------------
(* SpecCommit: the transactions of Spec on an engine whose delete and flush *)
(* can fail with an I/O error during MvccTransaction::commit                *)

\* the store when commit of the transaction failed at engine call number
\* step: the deletes of its TransactionWrite markers in key order, then the
\* delete of its ActiveTransaction marker, then flush; a call that fails
\* leaves the key directory as it was
CommitFailedAt(s, state, step) ==
    LET to_remove == EngineScan(s, key_prefix_range(KeyPrefixTransactionWrite(state.version)))
        removed == {to_remove[n] : n \in 1..(IF step - 1 < Len(to_remove) THEN step - 1
                                             ELSE Len(to_remove))}
        s1 == EngineDeleteAll(s, removed)
    IN  IF step <= Len(to_remove) + 1 THEN s1
        ELSE EngineDelete(s1, KeyActiveTransaction(state.version))

\* the engine calls of the commit of a transaction that wrote the markers
CommitSteps(s, state) ==
    1..(Cardinality(EngineScanPrefix(s, KeyPrefixTransactionWrite(state.version))) + 2)

\* h.commit() returns Err(Error::Io): the transaction is consumed
CommitFails ==
    \E h \in Handles :
        /\ Active(h)
        /\ ~txns[h].state.read_only
        /\ \E step \in CommitSteps(store, txns[h].state) :
              /\ store' = CommitFailedAt(store, txns[h].state, step)
              /\ ret' = Ret("commit", h, NoKey, "Io", Some(step))
        /\ txns' = [txns EXCEPT ![h].st = "failed"]
        /\ UNCHANGED <<ghost, nwrites, sessVars, scan, bitcaskVars, restVars>>

NextCommit == Begin \/ Set \/ Delete \/ Get \/ Commit \/ Rollback \/ CommitFails

SpecCommit == Init /\ [][NextCommit]_vars

\* C17: when commit fails with an error, at whichever of its steps, the
\* transaction counts as rolled back: a transaction that begins afterwards
\* reads for every key what it would read had the transaction been rolled
\* back.
C17_FailedCommitIsRolledBack ==
    [][\A h \in Handles :
          (txns[h].st = "active" /\ txns'[h].st = "failed") =>
              \A k \in Keys :
                  FreshGet(store', k) = FreshGet(MvccRollback(store, txns[h].state), k)]_vars

----------------------------------------------------------------------------
(* C21: Catalog::create_table                                               *)

\* the schema of Schemas that has the name
SchemaNamed(name) == CHOOSE t \in Range(Schemas) : t.name = name

\* a create_table(T) step of h stored T: h's get_table(T.name) and list_tables
\* return it afterwards
Stored(h, name) ==
    /\ lret'.res.err = "Ok"
    /\ get_table(store', txns[h].state, name) = Some(SchemaNamed(name))
    /\ SchemaNamed(name) \in Range(list_tables(store', txns[h].state))

\* a create_table(T) step of h was refused and wrote nothing
Refused(err) == lret'.res.err = err /\ store' = store

\* C21 as stated: a create_table(T) step fails with TableAlreadyExists and
\* changes nothing when the transaction sees a schema under T.name, and
\* otherwise stores T, which get_table(T.name) and list_tables then return.
C21_AsStated ==
    [][\A h \in Handles :
         (IsLocalCall("create_table") /\ lret'.h = h) =>
             IF NewestVisiblePayload(store, txns[h].state, LKeyTable(lret'.table)) # None
             THEN Refused("TableAlreadyExists")
             ELSE Stored(h, lret'.table)]_vars

\* C21: a create_table(T) step fails with TableAlreadyExists and changes
\* nothing when the transaction sees a schema under T.name; otherwise it
\* stores T, which get_table(T.name) and list_tables then return, unless
\* the schema key has a version the transaction does not see (written by a
\* transaction that is concurrent or began later), in which case it fails with
\* OutOfOrder and changes nothing.
C21_CreateTable ==
    [][\A h \in Handles :
         (IsLocalCall("create_table") /\ lret'.h = h) =>
             IF NewestVisiblePayload(store, txns[h].state, LKeyTable(lret'.table)) # None
             THEN Refused("TableAlreadyExists")
             ELSE IF \E w \in RecordVersions(store, LKeyTable(lret'.table)) :
                        ~is_version_visible(txns[h].state, w)
             THEN Refused("OutOfOrder")
             ELSE Stored(h, lret'.table)]_vars

\* a create_table of b was refused with OutOfOrder while another active
\* transaction, whose create_table stored b, gets it from get_table
C21_Witness ==
    /\ lret.op = "create_table" /\ lret.table = TableB.name
    /\ lret.res.err = "OutOfOrder"
    /\ \E g \in Handles :
          /\ Active(g) /\ g # lret.h
          /\ get_table(store, txns[g].state, TableB.name) = Some(TableB)

----------------------------------------------------------------------------
(* Keycode: KeycodeSerializer and KeycodeDeserializer over typed keys       *)

\* A key is the sequence of the primitives that serde hands to the serializer
\* for it, in order: t is the call (the kind of the primitive), i its number
\* (a bool as 0 or 1, an integer, a variant index) and b its bytes.
KField(t, i, b) == [t |-> t, i |-> i, b |-> b]
KBool(v) == KField("bool", v, <<>>)
KI64(n) == KField("i64", n, <<>>)
KU64(n) == KField("u64", n, <<>>)
KBytes(b) == KField("bytes", 0, b)
\* a variant of an enum: unit, newtype, tuple or struct; the fields of the
\* variant follow it in the key
KVariant(t, index) == KField(t, index, <<>>)
VariantKinds == {"unit_variant", "newtype_variant", "tuple_variant", "struct_variant"}

\* KeycodeSerializer: serialize_bool, serialize_i64, serialize_u64,
\* serialize_bytes and serialize_str, serialize_unit_variant,
\* serialize_newtype_variant, serialize_tuple_variant (each writes the variant
\* index as u8) and serialize_struct_variant (which writes nothing)
serialize_field(f) ==
    CASE f.t = "bool" -> <<f.i>>
      [] f.t = "i64" -> serialize_i64(f.i)
      [] f.t = "u64" -> ToBeBytes8(f.i)
      [] f.t = "bytes" -> serialize_bytes(f.b)
      [] f.t = "struct_variant" -> <<>>
      [] OTHER -> <<f.i % 256>>

\* key_serialize: the fields one after the other
RECURSIVE key_serialize(_)
key_serialize(x) ==
    IF x = <<>> THEN <<>> ELSE serialize_field(Head(x)) \o key_serialize(Tail(x))

\* i64::from_be_bytes, for values between -2^31 and 2^31
I64FromBeBytes(bytes) ==
    IF bytes[1] < 128 THEN FromBeBytes8(bytes)
    ELSE -FromBeBytes8([i \in 1..8 |-> 255 - bytes[i]]) - 1

\* the outcome of deserializing one field: [ok, val, rest]
KTaken(val, rest) == [ok |-> TRUE, val |-> val, rest |-> rest]
KFailed == [ok |-> FALSE, val |-> KBool(0), rest |-> <<>>]
KSlice(r) == IF r.ok THEN KTaken(KBytes(r.out), r.rest) ELSE KFailed

\* KeycodeDeserializer for one field of kind t: deserialize_bool,
\* deserialize_i64, deserialize_u64, deserialize_bytes and deserialize_str
\* (decode_next_byte_slice), variant_seed followed by unit_variant,
\* newtype_variant_seed, tuple_variant or struct_variant
deserialize_field(t, bytes) ==
    CASE t = "bool" ->
           IF Len(bytes) < 1 \/ bytes[1] > 1 THEN KFailed
           ELSE KTaken(KBool(bytes[1]), Tail(bytes))
      [] t = "i64" ->
           IF Len(bytes) < 8 THEN KFailed
           ELSE KTaken(KI64(I64FromBeBytes(FlipSignBit(SubSeq(bytes, 1, 8)))),
                       SubSeq(bytes, 9, Len(bytes)))
      [] t = "u64" ->
           IF Len(bytes) < 8 THEN KFailed
           ELSE KTaken(KU64(FromBeBytes8(SubSeq(bytes, 1, 8))),
                       SubSeq(bytes, 9, Len(bytes)))
      [] t = "bytes" -> KSlice(decode_next_byte_slice(bytes, <<>>))
      [] t = "struct_variant" -> KFailed
      [] OTHER ->
           IF Len(bytes) < 1 THEN KFailed
           ELSE KTaken(KVariant(t, bytes[1]), Tail(bytes))

\* key_deserialize for a key whose fields have the kinds ts: [ok, val, rest],
\* val the fields decoded and rest the bytes left over
RECURSIVE key_deserialize_from(_, _, _)
KNext(ts, done, r) ==
    IF ~r.ok THEN [ok |-> FALSE, val |-> done, rest |-> <<>>]
    ELSE key_deserialize_from(Tail(ts), Append(done, r.val), r.rest)
key_deserialize_from(ts, done, bytes) ==
    IF ts = <<>> THEN [ok |-> TRUE, val |-> done, rest |-> bytes]
    ELSE KNext(ts, done, deserialize_field(Head(ts), bytes))
key_deserialize(ts, bytes) == key_deserialize_from(ts, <<>>, bytes)

\* the kinds of the fields of a key
KindsOf(x) == [n \in DOMAIN x |-> x[n].t]

----------------------------------------------------------------------------
(* SpecKeycode: key_serialize, key_deserialize and key_prefix_range applied *)
(* to keys and byte strings drawn from bounded sets                         *)

\* byte strings of at most n bytes over the bytes in A
ByteStrings(A, n) == UNION {[1..m -> A] : m \in 0..n}

KeyBytes == {0, 1, 255}
KeyInts == {-257, -1, 0, 1, 256}
KeyVersions == {0, 1, 256}

\* struct TestKey { id: i64, name: String } and the same with a byte string
TestKeys ==
    {<<KI64(id), KBytes(name)>> : id \in KeyInts, name \in ByteStrings(KeyBytes, MaxKeyBytes)}
\* storage::mvcc::Key
MvccKeys ==
    {<<KVariant("unit_variant", 0)>>}
    \cup {<<KVariant("newtype_variant", 1), KU64(v)>> : v \in KeyVersions}
    \cup {<<KVariant("tuple_variant", 3), KU64(v), KBytes(k)>> :
             v \in {1, 2}, k \in ByteStrings(KeyBytes, 1)}
    \cup {<<KVariant("tuple_variant", 4), KBytes(k), KU64(v)>> :
             k \in ByteStrings(KeyBytes, MaxKeyBytes), v \in KeyVersions}
    \cup {<<KVariant("newtype_variant", 5), KBytes(k)>> : k \in ByteStrings(KeyBytes, 1)}
\* struct { flag: bool, n: u64 }
BoolKeys == {<<KBool(flag), KU64(n)>> : flag \in {0, 1}, n \in KeyVersions}
\* enum { A { x: i64 }, B { x: i64 } }
StructVariantKeys ==
    {<<KVariant("struct_variant", index), KI64(x)>> : index \in {0, 1}, x \in {-1, 0, 1}}

\* the key types the functions are applied to
KeyTypes == <<TestKeys, MvccKeys, BoolKeys, StructVariantKeys>>

\* the prefixes and the byte strings looked up in their ranges
PrefixBytes == {0, 254, 255}
Prefixes == ByteStrings(PrefixBytes, MaxPrefixLen)
Probes == ByteStrings(PrefixBytes, MaxPrefixLen + 1)

KInput(op, a, b) == [op |-> op, a |-> a, b |-> b]
KOutput(done, x, y) == [done |-> done, x |-> x, y |-> y]

InitKeycode ==
    /\ \/ input \in {KInput("encode", a, b) : a, b \in TestKeys}
             \cup {KInput("encode", a, b) : a, b \in MvccKeys}
             \cup {KInput("encode", a, b) : a, b \in BoolKeys}
             \cup {KInput("encode", a, b) : a, b \in StructVariantKeys}
             \cup {KInput("decode", a, a) : a \in UNION Range(KeyTypes)}
       \/ input \in {KInput("prefix", p, k) : p \in Prefixes, k \in Probes}
    /\ output = KOutput(FALSE, <<>>, <<>>)
    /\ InitMvcc /\ IdleSess /\ IdleScan /\ IdleBitcask /\ IdleLocal /\ IdleServer

KUnchanged ==
    UNCHANGED <<input, mvccVars, sessVars, scan, bitcaskVars, localVars, serverVars>>

\* a.encode() and b.encode() for two keys of one type
KEncode ==
    /\ input.op = "encode" /\ ~output.done
    /\ output' = KOutput(TRUE, key_serialize(input.a), key_serialize(input.b))
    /\ KUnchanged

\* K::decode(a.encode()): x is the encoding, y what the decoder returns
KDecode ==
    /\ input.op = "decode" /\ ~output.done
    /\ output' = KOutput(TRUE, key_serialize(input.a),
                         key_deserialize(KindsOf(input.a), key_serialize(input.a)))
    /\ KUnchanged

\* key_prefix_range(p) and range.contains(k)
KPrefixRange ==
    /\ input.op = "prefix" /\ ~output.done
    /\ output' = KOutput(TRUE, key_prefix_range(input.a),
                         RangeContains(key_prefix_range(input.a), input.b))
    /\ KUnchanged

NextKeycode == KEncode \/ KDecode \/ KPrefixRange

SpecKeycode == InitKeycode /\ [][NextKeycode]_vars

----------------------------------------------------------------------------
(* C22, C23: the key encoding keeps the order of the keys and round-trips   *)

\* the derived order of one field: variants by index, integers and bools by
\* number, strings and byte strings byte by byte
FieldLess(f, g) == IF f.t = "bytes" THEN BytesLess(f.b, g.b) ELSE f.i < g.i
\* the derived order of two keys of one type: field by field, the first
\* difference decides
RECURSIVE KeyLessFrom(_, _, _)
KeyLessFrom(a, b, n) ==
    IF n > Len(b) THEN FALSE
    ELSE IF n > Len(a) THEN TRUE
    ELSE IF FieldLess(a[n], b[n]) THEN TRUE
    ELSE IF FieldLess(b[n], a[n]) THEN FALSE
    ELSE KeyLessFrom(a, b, n + 1)
KeyLess(a, b) == KeyLessFrom(a, b, 1)

HasStructVariant(x) == \E n \in DOMAIN x : x[n].t = "struct_variant"

\* C22: for two keys a < b of one key type (fields that are i64, u64, bool,
\* strings or byte strings with the bytes 0x00 and 0xff, enum variants ordered
\* by index, tuples and structs ordered field by field), a.encode() is less
\* than b.encode() in byte-lexicographic order.
C22_EncodingKeepsOrder ==
    (output.done /\ input.op = "encode" /\ KeyLess(input.a, input.b))
        => BytesLess(output.x, output.y)

\* C23: for every key x built from bool, i64, u64, strings, byte strings,
\* enum variants and tuples or structs of these, decoding x.encode() with
\* the type of x succeeds, returns x and leaves no byte of the encoding over.
C23_RoundTrip ==
    (output.done /\ input.op = "decode")
        => (output.y.ok /\ output.y.val = input.a /\ output.y.rest = <<>>)

----------------------------------------------------------------------------
(* C24: key_prefix_range                                                    *)

\* p without its trailing 0xff bytes
RECURSIVE StripFF(_)
StripFF(p) ==
    IF p # <<>> /\ p[Len(p)] = 255 THEN StripFF(SubSeq(p, 1, Len(p) - 1)) ELSE p

\* p with its last byte incremented
Successor(p) == SubSeq(p, 1, Len(p) - 1) \o <<p[Len(p)] + 1>>

\* C24: key_prefix_range(P) starts at P included; its upper bound is P
\* without its trailing 0xff bytes and with the last remaining byte
\* incremented, excluded, or unbounded when nothing remains (P empty or all
\* 0xff); and a byte string is in the range exactly when it starts with P.
C24_PrefixRange ==
    (output.done /\ input.op = "prefix") =>
        /\ output.x[1] = Included(input.a)
        /\ output.x[2] = IF StripFF(input.a) = <<>> THEN Unbounded
                         ELSE Excluded(Successor(StripFF(input.a)))
        /\ output.y = IsPrefixOf(input.a, input.b)

\* the range of a prefix that ends in 0xff after another byte, and a longer
\* byte string that starts with the prefix
C24_Witness ==
    /\ output.done /\ input.op = "prefix"
    /\ input.a = <<254, 255>> /\ input.b = <<254, 255, 255>>
    /\ output.x[2] = Excluded(<<255>>)
    /\ output.y

----------------------------------------------------------------------------
(* Values of every variant: types/value.rs.  An f64 is its sign bit, its   *)
(* class and its magnitude n/d in lowest terms; a NaN keeps its payload in *)
(* n.  An i64 is an integer of IntegerBits bits.                           *)

I64_MIN == 0 - 2 ^ (IntegerBits - 1)
I64_MAX == 2 ^ (IntegerBits - 1) - 1

Abs(n) == IF n < 0 THEN 0 - n ELSE n

RECURSIVE GCD(_, _)
GCD(a, b) == IF b = 0 THEN a ELSE GCD(b, a % b)

\* the f64 with sign bit neg and magnitude n/d, in lowest terms
F64(neg, n, d) ==
    LET g == GCD(n, d)
    IN  [t |-> "Float", i |-> 0, neg |-> neg, cls |-> "num", n |-> n \div g, d |-> d \div g]

F64Inf(neg) == [t |-> "Float", i |-> 0, neg |-> neg, cls |-> "inf", n |-> 0, d |-> 1]
F64NaN(neg, payload) ==
    [t |-> "Float", i |-> 0, neg |-> neg, cls |-> "nan", n |-> payload, d |-> 1]

ValueFloat(num, den) == F64(num < 0, Abs(num), den)
ValueBoolean(b) == [t |-> "Boolean", i |-> IF b THEN 1 ELSE 0]
\* a String is its rank among the strings of the model
ValueString(s) == [t |-> "String", i |-> s]

\* `a as f64`
AsF64(a) == F64(a < 0, Abs(a), 1)

\* f64::is_nan, f64::is_sign_negative, the unary minus, f64::to_bits
is_nan(f) == f.cls = "nan"
is_sign_negative(f) == f.neg
F64Neg(f) == [f EXCEPT !.neg = ~f.neg]
to_bits(f) ==
    <<IF f.neg THEN 1 ELSE 0, CASE f.cls = "nan" -> 2 [] f.cls = "inf" -> 1 [] OTHER -> 0,
      f.n, f.d>>

\* the signed numerator of a number
F64Num(f) == IF f.neg THEN 0 - f.n ELSE f.n

\* == on f64: no NaN equals anything, the two zeros are equal
F64Eq(x, y) ==
    /\ ~is_nan(x) /\ ~is_nan(y)
    /\ x.cls = y.cls
    /\ x.n * y.d = y.n * x.d
    /\ (x.neg = y.neg \/ (x.cls = "num" /\ x.n = 0))

\* the order of two magnitudes: numbers, then infinity, then the NaNs by payload
F64MagCmp(x, y) ==
    LET cx == CASE x.cls = "nan" -> 2 [] x.cls = "inf" -> 1 [] OTHER -> 0
        cy == CASE y.cls = "nan" -> 2 [] y.cls = "inf" -> 1 [] OTHER -> 0
        l  == IF cx = 0 THEN x.n * y.d ELSE x.n
        r  == IF cx = 0 THEN y.n * x.d ELSE y.n
    IN  IF cx # cy THEN (IF cx < cy THEN -1 ELSE 1)
        ELSE IF l < r THEN -1 ELSE IF l > r THEN 1 ELSE 0

\* f64::total_cmp: the order of the sign-magnitude bit patterns
total_cmp(x, y) ==
    IF x.neg # y.neg THEN (IF x.neg THEN -1 ELSE 1)
    ELSE IF x.neg THEN F64MagCmp(y, x) ELSE F64MagCmp(x, y)

\* + on f64 (exact on the numbers of the model)
F64Add(x, y) ==
    IF is_nan(x) THEN x
    ELSE IF is_nan(y) THEN y
    ELSE IF x.cls = "inf"
         THEN (IF y.cls = "inf" /\ y.neg # x.neg THEN F64NaN(TRUE, 0) ELSE x)
    ELSE IF y.cls = "inf" THEN y
    ELSE LET num == F64Num(x) * y.d + F64Num(y) * x.d
         IN  IF num = 0 THEN F64(x.neg /\ y.neg, 0, 1)
             ELSE F64(num < 0, Abs(num), x.d * y.d)

\* / on f64 (exact as a fraction on the numbers of the model)
F64Div(x, y) ==
    LET neg == (x.neg # y.neg)
    IN  IF is_nan(x) THEN x
        ELSE IF is_nan(y) THEN y
        ELSE IF x.cls = "inf"
             THEN (IF y.cls = "inf" THEN F64NaN(TRUE, 0) ELSE F64Inf(neg))
        ELSE IF y.cls = "inf" THEN F64(neg, 0, 1)
        ELSE IF y.n = 0
             THEN (IF x.n = 0 THEN F64NaN(TRUE, 0) ELSE F64Inf(neg))
        ELSE F64(neg, x.n * y.d, x.d * y.n)

VOk(v) == [ok |-> TRUE, val |-> v, err |-> "none"]
VErr(e) == [ok |-> FALSE, val |-> ValueNull, err |-> e]

\* i64::checked_add and i64::checked_div
i64_checked_add(a, b) ==
    IF a + b < I64_MIN \/ a + b > I64_MAX THEN VErr("IntegerOverflow")
    ELSE VOk(ValueInteger(a + b))

\* the quotient rounded toward zero
i64_checked_div(a, b) ==
    IF b = 0 \/ (a = I64_MIN /\ b = -1) THEN VErr("IntegerOverflow")
    ELSE LET q == Abs(a) \div Abs(b)
         IN  VOk(ValueInteger(IF (a < 0) # (b < 0) THEN 0 - q ELSE q))

\* Value::checked_add
checked_add(a, b) ==
    CASE a.t = "Integer" /\ b.t = "Integer" -> i64_checked_add(a.i, b.i)
      [] a.t = "Integer" /\ b.t = "Float"   -> VOk(F64Add(AsF64(a.i), b))
      [] a.t = "Float" /\ b.t = "Integer"   -> VOk(F64Add(a, AsF64(b.i)))
      [] a.t = "Float" /\ b.t = "Float"     -> VOk(F64Add(a, b))
      [] OTHER                              -> VErr("NotYetSupported")

\* Value::checked_div
checked_div(a, b) ==
    CASE a.t = "Integer" /\ b.t = "Integer" -> i64_checked_div(a.i, b.i)
      [] a.t = "Integer" /\ b.t = "Float"   -> VOk(F64Div(AsF64(a.i), b))
      [] a.t = "Float" /\ b.t = "Integer"   -> VOk(F64Div(a, AsF64(b.i)))
      [] a.t = "Float" /\ b.t = "Float"     -> VOk(F64Div(a, b))
      [] OTHER                              -> VErr("NotYetSupported")

\* impl PartialEq for Value
ValueEq(a, b) ==
    CASE a.t = "Null" /\ b.t = "Null"       -> TRUE
      [] a.t = "Boolean" /\ b.t = "Boolean" -> a.i = b.i
      [] a.t = "Integer" /\ b.t = "Integer" -> a.i = b.i
      [] a.t = "Integer" /\ b.t = "Float"   -> F64Eq(AsF64(a.i), b)
      [] a.t = "Float" /\ b.t = "Integer"   -> F64Eq(a, AsF64(b.i))
      [] a.t = "Float" /\ b.t = "Float"     -> F64Eq(a, b) \/ (is_nan(a) /\ is_nan(b))
      [] a.t = "String" /\ b.t = "String"   -> a.i = b.i
      [] OTHER                              -> FALSE

\* the place of a variant in the enum
TypeRank(t) ==
    CASE t = "Null" -> 0 [] t = "Boolean" -> 1 [] t = "Integer" -> 2
      [] t = "Float" -> 3 [] t = "String" -> 4

IntCmp(a, b) == IF a < b THEN -1 ELSE IF a > b THEN 1 ELSE 0

\* impl Ord for Value: -1 for Less, 0 for Equal, 1 for Greater
ValueCmp(a, b) ==
    CASE a.t = "Integer" /\ b.t = "Float" -> total_cmp(AsF64(a.i), b)
      [] a.t = "Float" /\ b.t = "Integer" -> total_cmp(a, AsF64(b.i))
      [] a.t = "Float" /\ b.t = "Float"   -> total_cmp(a, b)
      [] a.t = b.t /\ a.t # "Float"       -> IntCmp(a.i, b.i)
      [] OTHER                            -> IntCmp(TypeRank(a.t), TypeRank(b.t))

\* impl Hash for Value: what the value writes to the hasher
ValueHash(v) ==
    <<TypeRank(v.t)>> \o
    CASE v.t = "Null"  -> <<>>
      [] v.t = "Float" ->
            IF (is_nan(v) \/ F64Eq(v, F64(FALSE, 0, 1))) /\ is_sign_negative(v)
            THEN to_bits(F64Neg(v))
            ELSE to_bits(v)
      [] OTHER         -> <<v.i>>

----------------------------------------------------------------------------
(* SpecValue: == and hash of two Values (types/value.rs) *)

\* the f64 values of the model: both zeros, numbers that are and are not
\* integers, and NaNs of both signs and two payloads
ModelFloats ==
    {F64(FALSE, 0, 1), F64(TRUE, 0, 1), ValueFloat(1, 1), ValueFloat(-1, 1),
     ValueFloat(1, 2), F64NaN(FALSE, 0), F64NaN(TRUE, 0), F64NaN(FALSE, 1)}

ModelValues ==
    {ValueNull, ValueBoolean(FALSE), ValueBoolean(TRUE),
     ValueInteger(-1), ValueInteger(0), ValueInteger(1),
     ValueString(0), ValueString(1)} \cup ModelFloats

InitValue ==
    /\ input \in {[op |-> "eq", a |-> a, b |-> b] : a \in ModelValues, b \in ModelValues}
    /\ output = [done |-> FALSE]
    /\ InitMvcc /\ IdleSess /\ IdleScan /\ IdleBitcask /\ IdleLocal /\ IdleServer

\* a == b, a.cmp(b), and a and b hashed by one hasher
ValueCompare ==
    /\ ~output.done
    /\ output' = [done |-> TRUE,
                  eq   |-> ValueEq(input.a, input.b),
                  cmp  |-> ValueCmp(input.a, input.b),
                  ha   |-> ValueHash(input.a),
                  hb   |-> ValueHash(input.b)]
    /\ KUnchanged

NextValue == ValueCompare

SpecValue == InitValue /\ [][NextValue]_vars

\* C29: two Values that are equal write the same to the hasher, so that their
\* hashes are equal: Integer(n) and Float(n), 0.0 and -0.0, NaN and NaN included
C29_HashConsistentWithEq ==
    (output.done /\ output.eq) => output.ha = output.hb

----------------------------------------------------------------------------
(* SpecAggregate: Aggregator and Accumulator (exec/aggregate.rs) on rows    *)
(* <<g, v>>, grouped by column g, with one aggregate over column v          *)

AggregateKinds == {"Average", "Count", "Max", "Min", "Sum"}

\* Accumulator::new: v holds the sum of Average and the Option of Max, Min, Sum
Accumulator_new(kind) ==
    [k |-> kind, count |-> 0, v |-> IF kind = "Average" THEN Some(ValueInteger(0)) ELSE None]

AccOk(acc) == [ok |-> TRUE, acc |-> acc, err |-> "none"]
AccErr(acc, e) == [ok |-> FALSE, acc |-> acc, err |-> e]

\* the assignment of a checked sum: `*sum = x.checked_add(&value)?`
AccSetSum(acc, r, count) ==
    IF r.ok THEN AccOk([acc EXCEPT !.v = Some(r.val), !.count = count])
    ELSE AccErr(acc, r.err)

\* Accumulator::add_value without the early return on Null
add_value_CountsNull(acc, value) ==
    CASE acc.k = "Average" ->
            AccSetSum(acc, checked_add(acc.v[1], value), acc.count + 1)
      [] acc.k = "Count" -> AccOk([acc EXCEPT !.count = acc.count + 1])
      [] acc.k = "Max" ->
            IF acc.v = None \/ ValueCmp(value, acc.v[1]) = 1
            THEN AccOk([acc EXCEPT !.v = Some(value)]) ELSE AccOk(acc)
      [] acc.k = "Min" ->
            IF acc.v = None \/ ValueCmp(value, acc.v[1]) = -1
            THEN AccOk([acc EXCEPT !.v = Some(value)]) ELSE AccOk(acc)
      [] acc.k = "Sum" ->
            AccSetSum(acc,
                      checked_add(IF acc.v = None THEN ValueInteger(0) ELSE acc.v[1], value),
                      acc.count)

\* Accumulator::add_value
add_value(acc, value) ==
    IF ValueEq(value, ValueNull) THEN AccOk(acc) ELSE add_value_CountsNull(acc, value)

\* Accumulator::value
Accumulator_value(acc) ==
    CASE acc.k = "Average" ->
            IF acc.count = 0 THEN VOk(ValueNull)
            ELSE checked_div(acc.v[1], ValueInteger(acc.count))
      [] acc.k = "Count" -> VOk(ValueInteger(acc.count))
      [] OTHER -> IF acc.v = None THEN VOk(ValueNull) ELSE VOk(acc.v[1])

\* Aggregator::add_row: the key of the row, its group's accumulator (a new one
\* for a new key), and the value of the row added to it
add_row(groups, kind, row) ==
    LET key == row[1]
        acc == IF key \in DOMAIN groups THEN groups[key] ELSE Accumulator_new(kind)
        r   == add_value(acc, row[2])
    IN  [ok     |-> r.ok,
         err    |-> r.err,
         groups |-> [k \in DOMAIN groups \cup {key} |-> IF k = key THEN r.acc ELSE groups[k]]]

\* Aggregator::finish: one row per group in the order of the keys, the key and
\* the value of the accumulator
RECURSIVE finish_rows(_, _)
finish_rows(groups, keys) ==
    IF keys = <<>> THEN <<>>
    ELSE <<[key |-> Head(keys), res |-> Accumulator_value(groups[Head(keys)])]>>
         \o finish_rows(groups, Tail(keys))

Aggregator_finish(groups) == finish_rows(groups, SortValues(DOMAIN groups))

\* the values of the rows: Null, integers up to the largest, a float, a string
AggregateValues ==
    {ValueNull, ValueInteger(1), ValueInteger(-2), ValueInteger(I64_MAX),
     ValueFloat(1, 2), ValueString(0)}

AggregateKeys == {ValueInteger(1), ValueInteger(2)}

AggregateRows == {<<g, v>> : g \in AggregateKeys, v \in AggregateValues}

RECURSIVE RowSeqs(_, _)
RowSeqs(R, n) ==
    IF n = 0 THEN {<<>>}
    ELSE LET S == RowSeqs(R, n - 1)
         IN  S \cup {Append(s, r) : s \in {x \in S : Len(x) = n - 1}, r \in R}

InitAggregate ==
    /\ input \in {[op |-> "aggregate", kind |-> k, rows |-> rs] :
                    k \in AggregateKinds, rs \in RowSeqs(AggregateRows, MaxAggregateRows)}
    /\ output = [groups |-> <<>>, fed |-> 0, done |-> FALSE, err |-> "none", rows |-> <<>>]
    /\ InitMvcc /\ IdleSess /\ IdleScan /\ IdleBitcask /\ IdleLocal /\ IdleServer

\* execute_aggregate, one turn of its loop: the next row of the source goes to
\* the aggregator; an error ends the execution
AggregateAddRow ==
    /\ ~output.done /\ output.fed < Len(input.rows)
    /\ LET r == add_row(output.groups, input.kind, input.rows[output.fed + 1])
       IN  output' = IF r.ok
                     THEN [output EXCEPT !.groups = r.groups, !.fed = output.fed + 1]
                     ELSE [output EXCEPT !.done = TRUE, !.err = r.err]
    /\ KUnchanged

\* execute_aggregate after the last row: aggregator.finish()
AggregateFinish ==
    /\ ~output.done /\ output.fed = Len(input.rows)
    /\ output' = [output EXCEPT !.done = TRUE, !.rows = Aggregator_finish(output.groups)]
    /\ KUnchanged

NextAggregate == AggregateAddRow \/ AggregateFinish

SpecAggregate == InitAggregate /\ [][NextAggregate]_vars

\* the non-Null values of column v in the rows of group key, in their order
GroupValues(rows, key) ==
    LET InGroup(r) == r[1] = key /\ r[2].t # "Null"
        sel == SelectSeq(rows, InGroup)
    IN  [i \in 1..Len(sel) |-> sel[i][2]]

\* the fold of checked_add over a sequence, from acc
RECURSIVE FoldAdd(_, _)
FoldAdd(acc, xs) ==
    IF xs = <<>> THEN VOk(acc)
    ELSE LET r == checked_add(acc, Head(xs))
         IN  IF r.ok THEN FoldAdd(r.val, Tail(xs)) ELSE r

\* SUM, COUNT and AVG of a sequence of non-Null values
SumOf(xs) == IF xs = <<>> THEN VOk(ValueNull) ELSE FoldAdd(ValueInteger(0), xs)
CountOf(xs) == VOk(ValueInteger(Len(xs)))
AvgOf(xs) ==
    IF xs = <<>> THEN VOk(ValueNull)
    ELSE IF SumOf(xs).ok THEN checked_div(SumOf(xs).val, CountOf(xs).val)
    ELSE SumOf(xs)

\* r is the least (sign = -1) or the greatest (sign = 1) of the values xs in
\* the order of Value, and Null when there is none
ExtremeOf(r, xs, sign) ==
    /\ r.ok
    /\ xs = <<>> => r.val = ValueNull
    /\ xs # <<>> =>
          /\ \E i \in 1..Len(xs) : xs[i] = r.val
          /\ \A i \in 1..Len(xs) : ValueCmp(xs[i], r.val) * sign <= 0

\* the result r of an aggregate of kind k is the aggregate of the values xs
AggregateOf(k, r, xs) ==
    CASE k = "Count"   -> r = CountOf(xs)
      [] k = "Sum"     -> r = SumOf(xs)
      [] k = "Average" -> r = AvgOf(xs)
      [] k = "Max"     -> ExtremeOf(r, xs, 1)
      [] k = "Min"     -> ExtremeOf(r, xs, -1)

\* C25: the aggregator returns one row per group key of its input; the row's
\* COUNT is the number of the group's non-Null values, its SUM their checked
\* sum, its MIN and MAX the least and the greatest of them in the order of
\* Value, its AVG the SUM divided by the COUNT, and with no non-Null value
\* COUNT is Integer(0) and the others are Null.  The aggregation fails only
\* when the checked sum of the values fed so far to one group fails
C25_Aggregates ==
    /\ (output.done /\ output.err = "none") =>
          /\ {output.rows[i].key : i \in 1..Len(output.rows)}
                = {input.rows[i][1] : i \in 1..Len(input.rows)}
          /\ \A i \in 1..Len(output.rows) :
                AggregateOf(input.kind, output.rows[i].res,
                            GroupValues(input.rows, output.rows[i].key))
    /\ (output.done /\ output.err # "none") =>
          /\ input.kind \in {"Sum", "Average"}
          /\ LET fed == SubSeq(input.rows, 1, output.fed + 1)
             IN  ~SumOf(GroupValues(fed, fed[Len(fed)][1])).ok

\* an AVG over a group with a Null, an integer and a float: (1 + 0.5) / 2
C25_Witness ==
    /\ output.done /\ output.err = "none" /\ input.kind = "Average"
    /\ \E i \in 1..Len(output.rows) :
          /\ output.rows[i].res = VOk(ValueFloat(3, 4))
          /\ \E j \in 1..Len(input.rows) :
                input.rows[j] = <<output.rows[i].key, ValueNull>>

----------------------------------------------------------------------------
(* Expressions (exec/expr.rs) and the joiners (exec/join.rs) *)

Expr_Constant(v) == [e |-> "Constant", v |-> v]
Expr_Column(index) == [e |-> "Column", c |-> index]
Expr_Binary(op, lhs, rhs) == [e |-> op, l |-> lhs, r |-> rhs]

\* the comparison a binary expression makes on two values
ExprCompare(op, a, b) ==
    CASE op = "Equal"        -> ValueEq(a, b)
      [] op = "NotEqual"     -> ~ValueEq(a, b)
      [] op = "Greater"      -> ValueCmp(a, b) = 1
      [] op = "GreaterEqual" -> ValueCmp(a, b) >= 0
      [] op = "Less"         -> ValueCmp(a, b) = -1
      [] op = "LessEqual"    -> ValueCmp(a, b) <= 0

\* Expr::evaluate on Some(row) (<<row>>) or None (<<>>); column indices start
\* at 0
RECURSIVE Expr_evaluate(_, _)
Expr_evaluate(expr, row) ==
    CASE expr.e = "Constant" -> VOk(expr.v)
      [] expr.e = "Column" ->
            IF row = None THEN VErr("RowNotFound")
            ELSE IF expr.c + 1 \in DOMAIN row[1] THEN VOk(row[1][expr.c + 1])
            ELSE VErr("InvalidColumnIndex")
      [] OTHER ->
            LET lhs == Expr_evaluate(expr.l, row)
                rhs == Expr_evaluate(expr.r, row)
            IN  IF ~lhs.ok THEN lhs
                ELSE IF ~rhs.ok THEN rhs
                ELSE VOk(ValueBoolean(ExprCompare(expr.e, lhs.val, rhs.val)))

\* right_cols Nulls
Nulls(n) == [i \in 1..n |-> ValueNull]

JoinOut(row, st) == [row |-> row, st |-> st, err |-> "none"]
JoinErr(e, st) == [row |-> None, st |-> st, err |-> e]

\* NestedLoopJoiner::new: the left row under peek, the next right row, the flag
NestedLoopJoiner_new == [li |-> 1, ri |-> 1, right_matched |-> FALSE]

\* NestedLoopJoiner::try_next on the joiner j (left, right, right_cols,
\* predicate, outer): the next row of the join, None at the end
RECURSIVE NestedLoopJoiner_try_next(_, _)
NestedLoopJoiner_try_next(st, j) ==
    IF st.li > Len(j.left) THEN JoinOut(None, st)
    ELSE IF st.ri <= Len(j.right)
    THEN LET row == j.left[st.li] \o j.right[st.ri]
             nx  == [st EXCEPT !.ri = st.ri + 1]
         IN  IF j.predicate = None
             THEN JoinOut(Some(row), [nx EXCEPT !.right_matched = TRUE])
             ELSE LET p == Expr_evaluate(j.predicate[1], Some(row))
                  IN  IF ~p.ok THEN JoinErr(p.err, nx)
                      ELSE IF p.val = ValueBoolean(TRUE) THEN JoinOut(Some(row), nx)
                      ELSE IF p.val = ValueBoolean(FALSE) \/ p.val = ValueNull
                           THEN NestedLoopJoiner_try_next(nx, j)
                      ELSE JoinErr("InvalidFilterResult", nx)
    ELSE IF ~st.right_matched /\ j.outer
    THEN JoinOut(Some(j.left[st.li] \o Nulls(j.right_cols)), [st EXCEPT !.right_matched = TRUE])
    ELSE NestedLoopJoiner_try_next([li |-> st.li + 1, ri |-> 1, right_matched |-> FALSE], j)

\* HashMap::get on the build side, a sequence of entries: the entry whose key
\* hashes like the key looked up and is equal to it, 0 when there is none
HashFind(map, key) ==
    LET hit == {i \in 1..Len(map) :
                  ValueHash(map[i].key) = ValueHash(key) /\ ValueEq(map[i].key, key)}
    IN  IF hit = {} THEN 0 ELSE SetMin(hit)

\* HashJoiner::new, its loop over the right rows: the rows with a Null in the
\* join column are left out, the others pushed to the entry of their value
RECURSIVE build_right_map(_, _, _)
build_right_map(map, right, right_col) ==
    IF right = <<>> THEN map
    ELSE LET row   == Head(right)
             value == row[right_col + 1]
             at    == HashFind(map, value)
         IN  IF ValueEq(value, ValueNull) THEN build_right_map(map, Tail(right), right_col)
             ELSE IF at = 0
                  THEN build_right_map(Append(map, [key |-> value, rows |-> <<row>>]),
                                       Tail(right), right_col)
             ELSE build_right_map([map EXCEPT ![at].rows = Append(@, row)],
                                  Tail(right), right_col)

HashJoiner_new(j) ==
    [right |-> build_right_map(<<>>, j.right, j.right_col), li |-> 1, pending |-> <<>>]

\* HashJoiner::try_next on the joiner j (left, left_col, right_cols, outer)
RECURSIVE HashJoiner_try_next(_, _)
HashJoiner_try_next(st, j) ==
    IF st.pending # <<>>
    THEN JoinOut(Some(Head(st.pending)), [st EXCEPT !.pending = Tail(st.pending)])
    ELSE IF st.li > Len(j.left) THEN JoinOut(None, st)
    ELSE LET left == j.left[st.li]
             at   == HashFind(st.right, left[j.left_col + 1])
             nx   == [st EXCEPT !.li = st.li + 1]
         IN  IF at # 0
             THEN LET rows == st.right[at].rows
                      all  == [i \in 1..Len(rows) |-> left \o rows[i]]
                  IN  JoinOut(Some(Head(all)), [nx EXCEPT !.pending = Tail(all)])
             ELSE IF j.outer THEN JoinOut(Some(left \o Nulls(j.right_cols)), nx)
             ELSE HashJoiner_try_next(nx, j)

----------------------------------------------------------------------------
(* SpecJoin: a nested-loop join and a hash join of the same two sources,    *)
(* rows of one column, joined on left column 0 = right column 0             *)

\* Null, an integer, the float equal to it, another integer
JoinValues == {ValueNull, ValueInteger(1), ValueFloat(1, 1), ValueInteger(2)}

JoinRows == {<<v>> : v \in JoinValues}

\* the predicate of the join on the joined row: column 0 = column 1
JoinPredicate == Expr_Binary("Equal", Expr_Column(0), Expr_Column(1))

InitJoin ==
    /\ input \in {[op |-> "join", left |-> l, right |-> r, right_cols |-> 1,
                   left_col |-> 0, right_col |-> 0, predicate |-> p, outer |-> o] :
                    l \in RowSeqs(JoinRows, MaxJoinRows), r \in RowSeqs(JoinRows, MaxJoinRows),
                    p \in {None, Some(JoinPredicate)}, o \in BOOLEAN}
    /\ output = [nl |-> NestedLoopJoiner_new, nlrows |-> <<>>, nldone |-> FALSE,
                 hj |-> None, hjrows |-> <<>>, hjdone |-> FALSE, err |-> "none"]
    /\ InitMvcc /\ IdleSess /\ IdleScan /\ IdleBitcask /\ IdleLocal /\ IdleServer

\* NestedLoopJoiner::next: one row of the nested-loop join, or its end
NestedLoopNext ==
    /\ ~output.nldone
    /\ LET r == NestedLoopJoiner_try_next(output.nl, input)
       IN  output' =
             IF r.err # "none" THEN [output EXCEPT !.nl = r.st, !.nldone = TRUE, !.err = r.err]
             ELSE IF r.row = None THEN [output EXCEPT !.nl = r.st, !.nldone = TRUE]
             ELSE [output EXCEPT !.nl = r.st, !.nlrows = Append(@, r.row[1])]
    /\ KUnchanged

\* execute_node on Node::HashJoin: the build of the joiner from the right source
HashJoinBuild ==
    /\ output.hj = None
    /\ output' = [output EXCEPT !.hj = Some(HashJoiner_new(input))]
    /\ KUnchanged

\* HashJoiner::next: one row of the hash join, or its end
HashJoinNext ==
    /\ output.hj # None /\ ~output.hjdone
    /\ LET r == HashJoiner_try_next(output.hj[1], input)
       IN  output' =
             IF r.row = None THEN [output EXCEPT !.hj = Some(r.st), !.hjdone = TRUE]
             ELSE [output EXCEPT !.hj = Some(r.st), !.hjrows = Append(@, r.row[1])]
    /\ KUnchanged

NextJoin == NestedLoopNext \/ HashJoinBuild \/ HashJoinNext

SpecJoin == InitJoin /\ [][NextJoin]_vars

\* how often the row r is in the sequence s, and two sequences with the same
\* rows as often
CountRow(s, r) == Cardinality({i \in 1..Len(s) : s[i] = r})
SameRows(s, t) == \A r \in Range(s) \cup Range(t) : CountRow(s, r) = CountRow(t, r)

\* the right rows the predicate accepts for a left row
Matches(left, right, predicate) ==
    LET Accepts(r) == Expr_evaluate(predicate, Some(left \o r)) = VOk(ValueBoolean(TRUE))
    IN  SelectSeq(right, Accepts)

\* the left outer join by its definition: for each left row its matching pairs,
\* and the left row with Nulls when it has none
RECURSIVE LeftOuterJoin(_, _, _, _)
LeftOuterJoin(left, right, right_cols, predicate) ==
    IF left = <<>> THEN <<>>
    ELSE LET m == Matches(Head(left), right, predicate)
         IN  (IF m = <<>> THEN <<Head(left) \o Nulls(right_cols)>>
              ELSE [i \in 1..Len(m) |-> Head(left) \o m[i]])
             \o LeftOuterJoin(Tail(left), right, right_cols, predicate)

\* C26: the rows of a left outer nested-loop join are, for each left row, its
\* pairs with the right rows the predicate accepts, and the left row followed
\* by right_cols Nulls exactly when the predicate accepts no right row
C26_LeftOuterJoin ==
    (output.nldone /\ input.op = "join" /\ input.outer /\ input.predicate # None)
        => SameRows(output.nlrows,
                    LeftOuterJoin(input.left, input.right, input.right_cols,
                                  input.predicate[1]))

\* C27: the hash join on left column 0 and right column 0 returns the rows the
\* nested-loop join returns for the predicate column 0 = column 1, inner and
\* left outer
C27_HashJoinIsNestedLoopJoin ==
    (output.nldone /\ output.hjdone /\ input.op = "join" /\ input.predicate # None)
        => SameRows(output.hjrows, output.nlrows)

----------------------------------------------------------------------------
(* SpecFilter: the three filters over a source of rows: Node::Filter in     *)
(* exec.rs, execute_filter in exec/executor.rs, the filter of               *)
(* LocalTransaction::scan in engine/local.rs                                *)

\* an item of a Rows iterator: Ok(row) or Err(e)
ItemOk(row) == [ok |-> TRUE, row |-> row, err |-> "none"]
ItemErr(e) == [ok |-> FALSE, row |-> <<>>, err |-> e]

\* what a filter returns: Err(e), or Ok of an iterator with its items
RowsOk(items) == [err |-> "none", items |-> items]
RowsErr(e) == [err |-> e, items |-> <<>>]

\* Value::is_truthy
is_truthy(v) == v = ValueBoolean(TRUE)

\* Executor::execute_node on Node::Filter, its loop from the rows kept so far
RECURSIVE execute_node_Filter(_, _, _)
execute_node_Filter(source, predicate, rows) ==
    IF source = <<>> THEN RowsOk(rows)
    ELSE IF ~Head(source).ok
    THEN execute_node_Filter(Tail(source), predicate, Append(rows, Head(source)))
    ELSE LET result == Expr_evaluate(predicate, Some(Head(source).row))
         IN  IF ~result.ok THEN RowsErr(result.err)
             ELSE IF result.val = ValueBoolean(TRUE)
                  THEN execute_node_Filter(Tail(source), predicate, Append(rows, Head(source)))
             ELSE IF result.val = ValueBoolean(FALSE)
                  THEN execute_node_Filter(Tail(source), predicate, rows)
             ELSE RowsErr("InvalidFilterResult")

\* Executor::execute_filter in exec/executor.rs, its loop from the rows kept
\* so far
RECURSIVE execute_filter(_, _, _)
execute_filter(source, predicate, result) ==
    IF source = <<>> THEN RowsOk(result)
    ELSE IF ~Head(source).ok THEN RowsErr(Head(source).err)
    ELSE LET v == Expr_evaluate(predicate, Some(Head(source).row))
         IN  IF (IF v.ok THEN is_truthy(v.val) ELSE FALSE)
             THEN execute_filter(Tail(source), predicate, Append(result, Head(source)))
             ELSE execute_filter(Tail(source), predicate, result)

\* the filter_map of LocalTransaction::scan: the items the iterator yields
RECURSIVE scan_filter(_, _)
scan_filter(rows, filter) ==
    IF rows = <<>> THEN <<>>
    ELSE LET res == Head(rows)
             v   == Expr_evaluate(filter, Some(res.row))
             out == IF ~res.ok THEN <<res>>
                    ELSE IF ~v.ok THEN <<ItemErr(v.err)>>
                    ELSE IF v.val = ValueBoolean(TRUE) THEN <<res>>
                    ELSE IF v.val = ValueBoolean(FALSE) THEN <<>>
                    ELSE <<ItemErr("InvalidFilterResult")>>
         IN  out \o scan_filter(Tail(rows), filter)

\* the rows of the sources: a column that is a predicate value of each kind
FilterValues == {ValueBoolean(TRUE), ValueBoolean(FALSE), ValueNull, ValueInteger(1)}

FilterItems == {ItemOk(<<v>>) : v \in FilterValues} \cup {ItemErr("Io")}

\* the predicates: the column itself, a comparison of it, a column that the
\* rows do not have
FilterPredicates ==
    {Expr_Column(0),
     Expr_Binary("Equal", Expr_Column(0), Expr_Constant(ValueBoolean(TRUE))),
     Expr_Column(1)}

InitFilter ==
    /\ input \in {[op |-> "filter", source |-> s, predicate |-> p] :
                    s \in RowSeqs(FilterItems, MaxFilterRows), p \in FilterPredicates}
    /\ output = [node |-> None, executor |-> None, scan |-> None]
    /\ InitMvcc /\ IdleSess /\ IdleScan /\ IdleBitcask /\ IdleLocal /\ IdleServer

\* exec.rs: execute_node(Node::Filter { source, predicate })
ExecuteNodeFilter ==
    /\ output.node = None
    /\ output' = [output EXCEPT
                    !.node = Some(execute_node_Filter(input.source, input.predicate, <<>>))]
    /\ KUnchanged

\* exec/executor.rs: execute_filter(source, predicate)
ExecuteFilter ==
    /\ output.executor = None
    /\ output' = [output EXCEPT
                    !.executor = Some(execute_filter(input.source, input.predicate, <<>>))]
    /\ KUnchanged

\* engine/local.rs: scan(table, Some(filter)) over the rows of the table
ScanFilter ==
    /\ output.scan = None
    /\ output' = [output EXCEPT
                    !.scan = Some(RowsOk(scan_filter(input.source, input.predicate)))]
    /\ KUnchanged

NextFilter == ExecuteNodeFilter \/ ExecuteFilter \/ ScanFilter

SpecFilter == InitFilter /\ [][NextFilter]_vars

\* what the consumer of a filter gets with try_collect: the error of the call
\* or of the first failed item, else the rows
Collected(r) ==
    LET bad == {i \in 1..Len(r.items) : ~r.items[i].ok}
    IN  IF r.err # "none" THEN RowsErr(r.err)
        ELSE IF bad # {} THEN RowsErr(r.items[SetMin(bad)].err)
        ELSE r

\* the errors the rows of a source raise in a filter: the source's own, those
\* of the evaluation of the predicate, InvalidFilterResult for a value that is
\* not a Boolean
FilterError(item, predicate) ==
    LET v == Expr_evaluate(predicate, Some(item.row))
    IN  IF ~item.ok THEN item.err
        ELSE IF ~v.ok THEN v.err
        ELSE IF v.val \in {ValueBoolean(TRUE), ValueBoolean(FALSE)} THEN "none"
        ELSE "InvalidFilterResult"

FilterErrors(source, predicate) ==
    {FilterError(source[i], predicate) : i \in 1..Len(source)} \ {"none"}

\* the rows of a source for which the predicate is Boolean(true)
FilterKeeps(source, predicate) ==
    LET Keep(item) ==
            item.ok /\ Expr_evaluate(predicate, Some(item.row)) = VOk(ValueBoolean(TRUE))
    IN  SelectSeq(source, Keep)

\* the contract of a filter on its result r
FilterContract(r) ==
    IF FilterErrors(input.source, input.predicate) = {}
    THEN Collected(r) = RowsOk(FilterKeeps(input.source, input.predicate))
    ELSE Collected(r).err \in FilterErrors(input.source, input.predicate)

\* C28: each filter returns the rows whose predicate is Boolean(true) and none
\* of those for which it is Boolean(false); when the predicate of a row is
\* another value the consumer gets InvalidFilterResult, and when its evaluation
\* fails the consumer gets the error, not a shorter result
C28_Filter ==
    input.op = "filter" =>
        /\ output.node # None => FilterContract(output.node[1])
        /\ output.executor # None => FilterContract(output.executor[1])
        /\ output.scan # None => FilterContract(output.scan[1])

----------------------------------------------------------------------------
(* SpecBegin: Mvcc::begin (storage/mvcc.rs) statement by statement, called  *)
(* from two threads that share the engine behind its mutex                  *)

Threads == {"t1", "t2"}

ThreadIdle == [pc |-> "idle", version |-> 0, active_txns |-> {}]

InitBegin ==
    /\ InitMvcc /\ IdleSess /\ IdleScan /\ IdleBitcask /\ IdleLocal /\ IdleServer
    /\ input = [op |-> "begin"]
    /\ output = [lock |-> "none", th |-> [t \in Threads |-> ThreadIdle]]

BeginUnchanged == UNCHANGED <<input, sessVars, scan, bitcaskVars, localVars, serverVars>>

\* a begin that does not wait for the mutex
MutexFree_NoMutex(o) == TRUE

\* Mutex::lock returns when no thread holds the engine
MutexFree(o) == o.lock = "none"

\* the begins that have started
BeginsStarted == Len(txns) + Cardinality({t \in Threads : output.th[t].pc # "idle"})

\* let mut engine = self.engine.lock()?
BLock(t) ==
    /\ output.th[t].pc = "idle" /\ MutexFree(output) /\ BeginsStarted < MaxBeginVersion
    /\ output' = [output EXCEPT !.lock = t, !.th[t].pc = "locked"]
    /\ UNCHANGED mvccVars /\ BeginUnchanged

\* let version = match engine.get(NextVersion) { Some(v) => decode(v), None => 1 }
BRead(t) ==
    /\ output.th[t].pc = "locked"
    /\ LET nv == EngineGet(store, KeyNextVersion)
       IN  output' = [output EXCEPT
                        !.th[t].pc = "read",
                        !.th[t].version = IF nv = None THEN 1 ELSE FromBeBytes8(nv[1])]
    /\ UNCHANGED mvccVars /\ BeginUnchanged

\* engine.set(NextVersion, version + 1)
BBump(t) ==
    /\ output.th[t].pc = "read"
    /\ store' = EngineSet(store, KeyNextVersion, ToBeBytes8(output.th[t].version + 1))
    /\ output' = [output EXCEPT !.th[t].pc = "bumped"]
    /\ UNCHANGED <<txns, ghost, ret, nwrites>> /\ BeginUnchanged

\* scan_active_txns, and the snapshot when a transaction is active
BSnapshot(t) ==
    /\ output.th[t].pc = "bumped"
    /\ LET active_txns == scan_active_txns(store)
       IN  /\ store' = IF active_txns # {}
                       THEN EngineSet(store, KeyActiveTransactionSnapshot(output.th[t].version),
                                      bincode_serialize_versions(active_txns))
                       ELSE store
           /\ output' = [output EXCEPT !.th[t].pc = "snapshot",
                                       !.th[t].active_txns = active_txns]
    /\ UNCHANGED <<txns, ghost, ret, nwrites>> /\ BeginUnchanged

\* engine.set(ActiveTransaction(version), [])
BMark(t) ==
    /\ output.th[t].pc = "snapshot"
    /\ store' = EngineSet(store, KeyActiveTransaction(output.th[t].version), <<>>)
    /\ output' = [output EXCEPT !.th[t].pc = "marked"]
    /\ UNCHANGED <<txns, ghost, ret, nwrites>> /\ BeginUnchanged

\* drop(engine); Ok(MvccTransaction { .. }): the transaction is handed out
BReturn(t) ==
    /\ output.th[t].pc = "marked"
    /\ txns' = Append(txns, [state |-> [version |-> output.th[t].version,
                                        read_only |-> FALSE,
                                        active_txns |-> output.th[t].active_txns],
                             st |-> "active"])
    /\ ghost' = Append(ghost,
           [writes |-> <<>>, wrote |-> {}, pre |-> <<>>,
            active_before |-> {g \in Handles : txns[g].st = "active"}])
    /\ ret' = Ret("begin", Len(txns) + 1, NoKey, "Ok", None)
    /\ output' = [output EXCEPT !.lock = IF @ = t THEN "none" ELSE @, !.th[t] = ThreadIdle]
    /\ UNCHANGED <<store, nwrites>> /\ BeginUnchanged

\* h.commit() and h.rollback() of a transaction handed out, under the mutex
BCommit(h) == MutexFree(output) /\ CommitOp(h) /\ UNCHANGED output /\ BeginUnchanged
BRollback(h) == MutexFree(output) /\ RollbackOp(h) /\ UNCHANGED output /\ BeginUnchanged

BeginLock == \E t \in Threads : BLock(t)
BeginRead == \E t \in Threads : BRead(t)
BeginBump == \E t \in Threads : BBump(t)
BeginSnapshot == \E t \in Threads : BSnapshot(t)
BeginMark == \E t \in Threads : BMark(t)
BeginReturn == \E t \in Threads : BReturn(t)
BeginCommit == \E h \in Handles : BCommit(h)
BeginRollback == \E h \in Handles : BRollback(h)

NextBegin ==
    BeginLock \/ BeginRead \/ BeginBump \/ BeginSnapshot \/ BeginMark \/ BeginReturn
        \/ BeginCommit \/ BeginRollback

SpecBegin == InitBegin /\ [][NextBegin]_vars

\* the NextVersion the store holds, 1 when it holds none
StoredNextVersion ==
    IF EngineGet(store, KeyNextVersion) = None THEN 1
    ELSE FromBeBytes8(EngineGet(store, KeyNextVersion)[1])

\* C30: the transactions handed out by begin() have the versions 1, 2, 3, ...
\* in the order they were handed out, each greater than all before it and no
\* two the same, whichever threads called begin; and whenever no begin holds
\* the engine, the stored NextVersion is the last version handed out plus 1
C30_VersionsIncrease ==
    input.op = "begin" =>
        /\ \A h \in Handles : txns[h].state.version = h
        /\ \A g \in Handles, h \in Handles :
              g < h => txns[g].state.version < txns[h].state.version
        /\ output.lock = "none" => StoredNextVersion = Len(txns) + 1

\* two threads have taken their turns and a third version is handed out after
\* an earlier transaction has ended
C30_Witness ==
    /\ input.op = "begin" /\ Len(txns) >= 3 /\ ret.op = "begin"
    /\ txns[Len(txns)].state.version = 3
    /\ \E h \in Handles : txns[h].st # "active"
    /\ StoredNextVersion = 4

----------------------------------------------------------------------------
(* Properties of SpecBegin: the snapshot of a begin *)

\* C31: the snapshot set of the transaction begin() has just handed out is
\* the set of the versions of the transactions handed out before it that have
\* neither committed nor rolled back; it does not hold the transaction's own
\* version, its members are smaller than that version, and the store holds
\* ActiveTransactionSnapshot(v), with the set as its value, exactly when the
\* set is not empty
C31_SnapshotIsActiveSet ==
    (input.op = "begin" /\ ret.op = "begin") =>
        LET state == txns[ret.h].state
            snap  == EngineGet(store, KeyActiveTransactionSnapshot(state.version))
        IN  /\ state.active_txns =
                  {txns[g].state.version : g \in ghost[ret.h].active_before}
            /\ state.version \notin state.active_txns
            /\ \A w \in state.active_txns : w < state.version
            /\ (snap # None) <=> (state.active_txns # {})
            /\ snap # None => snap[1] = bincode_serialize_versions(state.active_txns)

\* the fourth transaction begins while the first has ended and the second
\* and third are active
C31_Witness ==
    /\ input.op = "begin" /\ ret.op = "begin" /\ ret.h = 4
    /\ txns[1].st # "active"
    /\ txns[4].state.active_txns = {2, 3}

----------------------------------------------------------------------------
(* SpecInsert: the executor's Insert node run by transactions on the store  *)
(* that holds the tables p and c                                            *)

\* Value::try_cast to a column's data type
try_cast(value, data_type) ==
    IF value.t = "Null" THEN VOk(ValueNull)
    ELSE IF value.t = "Integer" /\ data_type = "Integer" THEN VOk(value)
    ELSE IF value.t = "String" /\ data_type = "Integer" /\ parse_i64(value.i) # None
    THEN VOk(ValueInteger(parse_i64(value.i)[1]))
    ELSE VErr("InvalidCast")

\* Executor::insert, the inner loop: the values of one row cast to the column types
CastErrors(table, values) ==
    {n \in DOMAIN values : ~try_cast(values[n], table.columns[n].data_type).ok}
casted_row(table, values) ==
    IF CastErrors(table, values) # {} THEN VErr("InvalidCast")
    ELSE VOk([n \in DOMAIN values |-> try_cast(values[n], table.columns[n].data_type).val])

\* Executor::insert, the loop that drains source into rows: [err, rows]
RECURSIVE DrainLoop(_, _, _)
DrainCast(table, source, rows, c) ==
    IF ~c.ok THEN RowsErr(c.err) ELSE DrainLoop(table, Tail(source), Append(rows, c.val))
DrainLoop(table, source, rows) ==
    IF source = <<>> THEN RowsOk(rows)
    ELSE IF ~Head(source).ok THEN RowsErr(Head(source).err)
    ELSE IF ~validate_row(table, Head(source).row) THEN RowsErr("InvalidRow")
    ELSE DrainCast(table, source, rows, casted_row(table, Head(source).row))

\* the outcome of Executor::insert: the store, the result, whether txn.insert
\* was called and the count returned
InsertOutcome(s, res, called, count) ==
    [store |-> s, res |-> res, called |-> called, count |-> count]
InsertRows(s, state, table, d, r) ==
    IF d.err # "none" THEN InsertOutcome(s, LErr(d.err), FALSE, 0)
    ELSE InsertOutcome(r.store, r.res, TRUE, IF r.res.err = "Ok" THEN Len(d.items) ELSE 0)

\* an insert that hands the source rows to txn.insert as they come
Executor_insert_Unchecked(s, state, table, source) ==
    InsertRows(s, state, table, RowsOk([n \in DOMAIN source |-> source[n].row]),
               insert(s, state, table.name, [n \in DOMAIN source |-> source[n].row]))
\* Executor::insert
Executor_insert(s, state, table, source) ==
    InsertRows(s, state, table, DrainLoop(table, source, <<>>),
               insert(s, state, table.name, DrainLoop(table, source, <<>>).items))

\* the rows the Insert nodes are given: rows of c, one with the text of a
\* number, one with a text that is no number, a Boolean, a short row, and a
\* source that fails
InsertItems ==
    {ItemOk(<<ValueInteger(2), ValueInteger(1)>>),
     ItemOk(<<ValueInteger(3), ValueString(2)>>),
     ItemOk(<<ValueInteger(4), ValueNull>>),
     ItemOk(<<ValueInteger(3), ValueString(0)>>),
     ItemOk(<<ValueInteger(3), ValueBoolean(TRUE)>>),
     ItemOk(<<ValueInteger(3)>>),
     ItemErr("Io")}
InsertSources ==
    {<<>>} \cup {<<a>> : a \in InsertItems} \cup {<<a, b>> : a \in InsertItems, b \in InsertItems}

InitInsert == InitLocal

\* Plan::Insert of a source into c executed in transaction h
EInsert ==
    \E h \in Handles, source \in InsertSources :
        /\ Active(h)
        /\ nwrites < MaxInsertOps
        /\ LET r == Executor_insert(store, txns[h].state, TableC, source)
           IN  /\ store' = r.store
               /\ lret' = LRet("exec_insert", h, TableC.name, source, r.res)
               /\ output' = [called |-> r.called, count |-> r.count]
        /\ nwrites' = nwrites + 1
        /\ UNCHANGED <<input, txns, ghost, ret, sessVars, scan, bitcaskVars, serverVars>>

InsertBegin == LBegin
InsertCommit == LCommit
InsertRollback == LRollback

NextInsert == InsertBegin \/ EInsert \/ InsertCommit \/ InsertRollback

SpecInsert == InitInsert /\ [][NextInsert]_vars

\* a row the schema of table accepts and whose values cast to its column types,
\* stated on the values: as many values as columns, each Null, an Integer or the
\* text of a number
RowFits(table, row) ==
    /\ Len(row) = Len(table.columns)
    /\ \A n \in DOMAIN row :
          \/ row[n].t \in {"Null", "Integer"}
          \/ row[n].t = "String" /\ row[n].i # 0

\* C32: executing Insert validates and casts every source row before anything
\* is written: when a row fails validation (InvalidRow) or casting
\* (InvalidCast), txn.insert is not called and the store is left as it was, a
\* source with a row that does not fit never reaches txn.insert, and on
\* success the count returned is the number of source rows
C32_InsertValidatesFirst ==
    [][IsLocalCall("exec_insert") =>
          LET source == lret'.arg
              err    == lret'.res.err
          IN  /\ err \in {"InvalidRow", "InvalidCast"} =>
                    ~output'.called /\ store' = store
              /\ (\E n \in DOMAIN source :
                     ~source[n].ok \/ ~RowFits(TableC, source[n].row)) =>
                    ~output'.called /\ store' = store /\ err # "Ok"
              /\ err = "Ok" =>
                    /\ output'.called
                    /\ output'.count = Len(source)
                    /\ \A n \in DOMAIN source :
                          get_row(store', txns[lret'.h].state, TableC.name,
                                  source[n].row[1]) # None]_vars

\* an Insert of two rows, the second of which does not fit, has returned
\* InvalidRow
C32_Witness ==
    /\ lret.op = "exec_insert"
    /\ Len(lret.arg) = 2
    /\ lret.arg[1] = ItemOk(<<ValueInteger(2), ValueInteger(1)>>)
    /\ lret.arg[2] = ItemOk(<<ValueInteger(3), ValueString(0)>>)
    /\ lret.res.err = "InvalidRow"

\* the primary keys of the rows a transaction sees of table whose value in
\* column c is x
KeysWithValue(s, state, table, c, x) ==
    {row[table.primary_key_index + 1] :
        row \in {r \in Range(scan_rows(s, state, table.name)) : r[c] = x}}

\* C33: for every table an open transaction sees, every column of it with a
\* secondary index and every value x, the bucket Index(table, column, x) is the
\* set of primary keys of the rows whose value in the column is x, and no
\* bucket is stored when that set is empty; also after an insert with a
\* primary key that already has a row.
C33_IndexConsistent ==
    \A h \in Handles :
        Active(h) =>
            \A table \in Range(list_tables(store, txns[h].state)) :
                table.primary_key_index < Len(table.columns) =>
                    \A c \in DOMAIN table.columns :
                        table.columns[c].has_secondary_index =>
                            \A x \in BucketValues :
                                /\ get_index(store, txns[h].state, table.name,
                                             table.columns[c].name, x)
                                      = KeysWithValue(store, txns[h].state, table, c, x)
                                /\ KeysWithValue(store, txns[h].state, table, c, x) = {} =>
                                      MvccGet(store, txns[h].state,
                                              LKeyIndex(table.name, table.columns[c].name, x))
                                          = None

----------------------------------------------------------------------------
(* SpecConflict: three MVCC transactions that write, commit and roll back   *)

CfBegin == BeginOp(MaxConflictVersion) /\ UNCHANGED <<sessVars, scan, bitcaskVars, restVars>>
CfSet == \E h \in Handles, k \in Keys, v \in Vals :
           WriteOp(h, k, Some(v), MaxConflictWrites)
               /\ UNCHANGED <<sessVars, scan, bitcaskVars, restVars>>
CfDelete == \E h \in Handles, k \in Keys :
           WriteOp(h, k, None, MaxConflictWrites)
               /\ UNCHANGED <<sessVars, scan, bitcaskVars, restVars>>
CfCommit == \E h \in Handles : CommitOp(h) /\ UNCHANGED <<sessVars, scan, bitcaskVars, restVars>>
CfRollback == \E h \in Handles : RollbackOp(h) /\ UNCHANGED <<sessVars, scan, bitcaskVars, restVars>>

NextConflict == CfBegin \/ CfSet \/ CfDelete \/ CfCommit \/ CfRollback

SpecConflict == Init /\ [][NextConflict]_vars

\* the keys k for which the store holds a marker TransactionWrite(v, k)
MarkedKeys(s, v) ==
    {KeyDecode(x).key :
        x \in {y \in DOMAIN s : KeyDecode(y).ok /\ KeyDecode(y).tag = 3
                                  /\ KeyDecode(y).version = v}}
\* the keys k for which the store holds a record Version(k, v)
VersionedKeys(s, v) ==
    {KeyDecode(x).key :
        x \in {y \in DOMAIN s : KeyDecode(y).ok /\ KeyDecode(y).tag = 4
                                  /\ KeyDecode(y).version = v}}

\* C34: for every active transaction with version v, the keys with a marker
\* TransactionWrite(v, k) are exactly the keys with a record Version(k, v), and
\* they are the keys it wrote; for a committed and for a rolled-back
\* transaction no marker TransactionWrite(v, .) is stored.
C34_WriteSet ==
    \A h \in Handles :
        LET v == txns[h].state.version
        IN  IF txns[h].st = "active"
            THEN /\ MarkedKeys(store, v) = VersionedKeys(store, v)
                 /\ MarkedKeys(store, v) = ghost[h].wrote
            ELSE MarkedKeys(store, v) = {}

\* one transaction has written and committed, one has written and rolled
\* back, and an active one has written
C34_Witness ==
    /\ \E h \in Handles : txns[h].st = "committed" /\ ghost[h].wrote # {}
    /\ \E h \in Handles : txns[h].st = "rolledback" /\ ghost[h].wrote # {}
    /\ \E h \in Handles : txns[h].st = "active" /\ ghost[h].wrote # {}

\* the transactions other than h that block a write of k by h: concurrent with
\* h, have written k with success and have not rolled back
Blockers(h, k) ==
    {o \in Handles \ {h} :
        Concurrent(o, h) /\ k \in ghost[o].wrote /\ txns[o].st # "rolledback"}

\* C36: a set or delete of k by a transaction fails with OutOfOrder when a
\* transaction concurrent with it wrote k and has committed, and succeeds when
\* every other transaction that wrote k has rolled back or committed before
\* the writer began, so a rolled-back write of k no longer conflicts and a
\* transaction that begins after the commit can write k.
C36_RollbackFreesKey ==
    [][IsWriteStep =>
          /\ (\E o \in Blockers(ret'.h, ret'.key) : txns[o].st = "committed")
                => (ret'.res = "OutOfOrder" /\ store' = store)
          /\ Blockers(ret'.h, ret'.key) = {} => ret'.res = "Ok"]_vars

\* a write of a key succeeded although a concurrent transaction had written
\* the key (and rolled back), while another key's write by a transaction that
\* committed is in the store
C36_Witness ==
    /\ ret.op \in {"set", "delete"}
    /\ ret.res = "Ok"
    /\ \E o \in Handles \ {ret.h} :
          /\ Concurrent(o, ret.h)
          /\ ret.key \in ghost[o].wrote
          /\ txns[o].st = "rolledback"
    /\ \E o \in Handles \ {ret.h} : txns[o].st = "committed"

\* C35: while a scan is open, a step of another transaction (begin, set,
\* delete, commit, rollback) between two next() calls leaves what the rest of
\* the scan yields as it was: it adds, removes, duplicates, reorders and
\* changes no entry, although the engine is not locked between the refills.
C35_ScanKeepsSnapshot ==
    [][(scan.open /\ ~scan.done /\ scan' = scan) =>
          ScanCollect(store', scan.it) = ScanCollect(store, scan.it)]_vars

\* a scan has yielded its first buffer and has more to yield, and a
\* transaction concurrent with the scanning one has written the first key
\* after that buffer and committed
C35_Witness ==
    /\ scan.open /\ ~scan.done
    /\ Len(scan.out) = BUFFER_SIZE
    /\ ret.op = "commit"
    /\ ret.h # scan.h
    /\ Concurrent(ret.h, scan.h)
    /\ <<BUFFER_SIZE + 1>> \in ghost[ret.h].wrote

----------------------------------------------------------------------------
(* Bitcask::get_into *)

\* Log::read_into: seek to offset and io::copy the file from there to its end
\* into the output
read_into(file, offset, out0) ==
    out0 \o (IF offset >= Len(file) THEN <<>> ELSE SubSeq(file, offset + 1, Len(file)))

\* Bitcask::get_into: [out, size], out being the output after the call
get_into(file, kd, key, out0) ==
    IF key \in DOMAIN kd
    THEN [out |-> read_into(file, kd[key].offset, out0), size |-> Some(kd[key].size)]
    ELSE [out |-> out0, size |-> None]

\* C37: for every key, get_into(key, out) writes to an empty out exactly the
\* bytes that get(key) returns and reports their length, and writes nothing
\* and returns None for an absent key, wherever the key's record lies in the
\* log.
C37_GetIntoAgreesWithGet ==
    \A k \in BKeys :
        BitcaskGet(log, key_dir, k).ok =>
            IF BitcaskGet(log, key_dir, k).val = None
            THEN get_into(log, key_dir, k, <<>>) = [out |-> <<>>, size |-> None]
            ELSE get_into(log, key_dir, k, <<>>)
                    = [out |-> BitcaskGet(log, key_dir, k).val[1],
                       size |-> Some(Len(BitcaskGet(log, key_dir, k).val[1]))]

----------------------------------------------------------------------------
(* SpecLines: the lines of the connections.  A client writes request lines, *)
(* well-formed or not, without waiting for the responses; sql_session reads *)
(* them one by one.  input counts the lines each client has written, output *)
(* lists the request numbers of the response lines written to it            *)

\* the n-th line of a connection: the JSON of a request with a batch, or a
\* line that serde_json::from_str rejects
RequestLine(n, batch) == [n |-> n, ok |-> TRUE, batch |-> batch]
MalformedLine(n) == [n |-> n, ok |-> FALSE, batch |-> <<>>]
LineBatches == {<<a>> : a \in Stmts}

InitLines ==
    /\ store = SetupStore.store
    /\ txns = SetupTxns
    /\ cur = [c \in Sessions |-> 0]
    /\ ghost = <<>>
    /\ ret = Ret("new", 0, NoKey, "Ok", None)
    /\ nwrites = 0
    /\ sret = [op |-> "new", c |-> "A", res |-> "Ok"]
    /\ s3 = 0
    /\ IdleScan /\ IdleBitcask /\ IdleLocal /\ IdleServer
    /\ input = [c \in Sessions |-> 0]
    /\ output = [c \in Sessions |-> <<>>]

LnConnect == \E c \in Sessions : Connect(c)
LnAccept == \E c \in Sessions : Accept(c)

\* a client writes a line on its connection
LnWrite(c, line) ==
    /\ conn[c] \in {"waiting", "open"}
    /\ nwrites < MaxLines
    /\ inbox' = [inbox EXCEPT ![c] = Append(@, line)]
    /\ input' = [input EXCEPT ![c] = @ + 1]
    /\ nwrites' = nwrites + 1
    /\ UNCHANGED <<store, txns, ghost, ret, sessVars, scan, bitcaskVars, localVars, output,
                   serving, conn, resp, mid>>
LnSend ==
    \E c \in Sessions :
        \/ \E batch \in LineBatches : LnWrite(c, RequestLine(input[c] + 1, batch))
        \/ LnWrite(c, MalformedLine(input[c] + 1))

\* sql_session: lines.next_line() yields a line that deserializes to a
\* request; process_request runs it and the response line is written
LnProcess ==
    \E c \in Sessions :
        /\ serving = c
        /\ inbox[c] # <<>>
        /\ Head(inbox[c]).ok
        /\ LET r == process_request(World(store, txns, cur), c, Head(inbox[c]).batch)
           IN  /\ Len(r.w.txns) <= MaxServerVersion
               /\ store' = r.w.store
               /\ txns' = r.w.txns
               /\ cur' = r.w.cur
               /\ resp' = [c |-> c, results |-> r.results]
               /\ mid' = [c |-> c, batch |-> Head(inbox[c]).batch, held |-> r.held,
                          failed |-> r.failed]
        /\ output' = [output EXCEPT ![c] = Append(@, Head(inbox[c]).n)]
        /\ inbox' = [inbox EXCEPT ![c] = Tail(@)]
        /\ UNCHANGED <<ghost, ret, nwrites, sret, s3, scan, bitcaskVars, localVars, input,
                       serving, conn>>

\* sql_session: lines.next_line() yields a line that does not deserialize;
\* the error is logged and the loop continues with the next line
LnSkip ==
    \E c \in Sessions :
        /\ serving = c
        /\ inbox[c] # <<>>
        /\ ~Head(inbox[c]).ok
        /\ inbox' = [inbox EXCEPT ![c] = Tail(@)]
        /\ UNCHANGED <<mvccVars, sessVars, scan, bitcaskVars, localVars, pureVars,
                       serving, conn, resp, mid>>

LnHangup == \E c \in Sessions : Hangup(c)

NextLines == LnConnect \/ LnAccept \/ LnSend \/ LnProcess \/ LnSkip \/ LnHangup

SpecLines == InitLines /\ [][NextLines]_vars

\* C38: on every connection the response lines written are one for each
\* request line the server has read, well-formed or not, in the order of the
\* requests: when the server has read all the lines a client wrote, the
\* client has one response for each of them.
C38_OneResponsePerLine ==
    \A c \in Sessions :
        output[c] = [i \in 1..(input[c] - Len(inbox[c])) |-> i]

----------------------------------------------------------------------------
(* SpecSelf: transactions that insert and delete rows of p, the table that  *)
(* references itself                                                        *)

\* the rows of p the transactions insert: each may reference either row
SelfRows ==
    {<<ValueInteger(id), up>> :
        id \in {1, 2}, up \in {ValueNull, ValueInteger(1), ValueInteger(2)}}

SelfBegin == LBegin

\* h.insert(p, [row])
SelfInsert ==
    \E h \in Handles, row \in SelfRows :
        /\ Active(h)
        /\ nwrites < MaxSelfOps
        /\ LCall("insert", h, TableP.name, <<row>>,
                 insert(store, txns[h].state, TableP.name, <<row>>))

\* h.delete(p, ids)
SelfDelete ==
    \E h \in Handles, ids \in LocalIdLists :
        /\ Active(h)
        /\ nwrites < MaxSelfOps
        /\ LCall("delete", h, TableP.name, ids,
                 delete(store, txns[h].state, TableP.name, ids))

SelfCommit == LCommit
SelfRollback == LRollback

NextSelf == SelfBegin \/ SelfInsert \/ SelfDelete \/ SelfCommit \/ SelfRollback

SpecSelf == InitLocal /\ [][NextSelf]_vars

\* C39: a delete of rows of p, the table that references itself, fails with
\* ReferentialIntegrity when a row of p outside the deleted set references one
\* of the deleted rows, and is not refused on account of p when every row of p
\* that references a deleted row is itself in the deleted set.
C39_SelfReference ==
    [][(IsLocalCall("delete") /\ lret'.table = TableP.name) =>
          LET state == txns[lret'.h].state
              ids   == lret'.arg
          IN  /\ ReferencingRows(store, state, TableP, TableP.name, ids) # {}
                    => lret'.res.err = "ReferentialIntegrity"
              /\ ReferencingRows(store, state, TableP, TableP.name, ids) = {}
                    => ~(lret'.res.err = "ReferentialIntegrity"
                            /\ lret'.res.table = TableP.name)]_vars

----------------------------------------------------------------------------
(* SpecScope: exec/scope.rs, one Scope and the add_table and add_column     *)
(* calls made on it.  output holds the scope and the result of the last     *)
(* call, input the call and the scope it was made on                        *)

\* ColumnLabel
LabelNone == [kind |-> "None", table |-> "", column |-> ""]
LabelUnqualified(column) == [kind |-> "Unqualified", table |-> "", column |-> column]
LabelQualified(table, column) == [kind |-> "Qualified", table |-> table, column |-> column]

\* Scope::default(), without the aggregates
Scope_default == [columns |-> <<>>, tables |-> {}, qualified |-> <<>>, unqualified |-> <<>>]

\* the outcome of a call on a scope: [scope, res]
ScopeOk(scope, index) == [scope |-> scope, res |-> [err |-> "Ok", index |-> index]]
ScopeErr(scope, e) == [scope |-> scope, res |-> [err |-> e, index |-> 0]]

\* Scope::add_column
add_column(scope, label) ==
    ScopeOk([columns |-> Append(scope.columns, label),
             tables |-> scope.tables,
             qualified |->
                 IF label.kind = "Qualified"
                 THEN Extend(scope.qualified, <<label.table, label.column>>,
                             Len(scope.columns))
                 ELSE scope.qualified,
             unqualified |->
                 IF label.kind \in {"Unqualified", "Qualified"}
                 THEN Extend(scope.unqualified, label.column,
                             Append(IF label.column \in DOMAIN scope.unqualified
                                    THEN scope.unqualified[label.column] ELSE <<>>,
                                    Len(scope.columns)))
                 ELSE scope.unqualified],
            Len(scope.columns))

\* Scope::add_table, the loop over the columns of the table
RECURSIVE AddColumns(_, _, _)
AddColumnsNext(name, columns, r) ==
    IF r.res.err # "Ok" THEN r ELSE AddColumns(r.scope, name, Tail(columns))
AddColumns(scope, name, columns) ==
    IF columns = <<>> THEN ScopeOk(scope, 0)
    ELSE AddColumnsNext(name, columns,
                        add_column(scope, LabelQualified(name, Head(columns).name)))

\* Scope::add_table
TablesInsert(name, r) ==
    IF r.res.err # "Ok" THEN r
    ELSE ScopeOk([r.scope EXCEPT !.tables = @ \cup {name}], 0)
add_table(scope, table, alias) ==
    LET name == IF alias = None THEN table.name ELSE alias[1]
    IN  IF name \in scope.tables THEN ScopeErr(scope, "DuplicateTable")
        ELSE TablesInsert(name, AddColumns(scope, name, table.columns))

\* the tables, aliases and labels of the calls
ScopeTables ==
    {[name |-> "t", columns |-> <<[name |-> "a"], [name |-> "b"]>>],
     [name |-> "u", columns |-> <<[name |-> "a"]>>]}
ScopeAliases == {None, Some("t")}
ScopeLabels ==
    {LabelNone, LabelUnqualified("a"), LabelUnqualified("b"),
     LabelQualified("t", "a"), LabelQualified("u", "b")}

InitScope ==
    /\ input = [op |-> "new", before |-> Scope_default, known |-> FALSE]
    /\ output = ScopeOk(Scope_default, 0)
    /\ InitMvcc /\ IdleSess /\ IdleScan /\ IdleBitcask /\ IdleLocal /\ IdleServer

\* scope.add_table(table, alias)
ScopeAddTable ==
    \E table \in ScopeTables, alias \in ScopeAliases :
        /\ Len(output.scope.columns) + Len(table.columns) <= MaxScopeColumns
        /\ input' = [op |-> "add_table", before |-> output.scope, known |-> FALSE]
        /\ output' = add_table(output.scope, table, alias)
        /\ UNCHANGED <<mvccVars, sessVars, scan, bitcaskVars, localVars, serverVars>>

\* scope.add_column(label)
ScopeAddColumn ==
    \E label \in ScopeLabels :
        /\ Len(output.scope.columns) < MaxScopeColumns
        /\ input' = [op |-> "add_column", before |-> output.scope,
                     known |-> label.kind # "None" /\ label \in Range(output.scope.columns)]
        /\ output' = add_column(output.scope, label)
        /\ UNCHANGED <<mvccVars, sessVars, scan, bitcaskVars, localVars, serverVars>>

NextScope == ScopeAddTable \/ ScopeAddColumn

SpecScope == InitScope /\ [][NextScope]_vars

\* C40: an add_column with a label that is already in the scope returns
\* DuplicateColumn and leaves the scope as it was, so after any sequence of
\* add_table and add_column calls no two columns of the scope carry the same
\* Qualified or Unqualified label and every (table, column) entry of the
\* qualified map is the index of the column with that label.
C40_NoDuplicateColumns ==
    /\ (input.op = "add_column" /\ input.known) =>
          (output.res.err = "DuplicateColumn" /\ output.scope = input.before)
    /\ \A i, j \in DOMAIN output.scope.columns :
          (i # j /\ output.scope.columns[i].kind # "None")
              => output.scope.columns[i] # output.scope.columns[j]
    /\ \A key \in DOMAIN output.scope.qualified :
          output.scope.columns[output.scope.qualified[key] + 1]
              = LabelQualified(key[1], key[2])

====
